---- MODULE Spec2Model ----
(***************************************************************************)
(* Model of the data-access decorators of python-decorators-0x01:          *)
(*   with_db_connection  (1-with_db_connection.py, 2-transactional.py,     *)
(*                        3-retry_on_failure.py: the same code)            *)
(*   transactional       (2-transactional.py)                              *)
(*   retry_on_failure    (3-retry_on_failure.py)                           *)
(* One caller makes calls one after the other.  Each call goes through     *)
(* with_db_connection, which runs the decorated function: the operation    *)
(* itself ("plain"), transactional(operation) or                           *)
(* retry_on_failure(retries, delay)(operation), the three compositions the *)
(* source files use.  print statements are not modelled.                   *)
(***************************************************************************)
EXTENDS Integers, Sequences, FiniteSets, TLC

\* ---------------------------------------------------------------- bounds
MaxCalls == 2       \* calls the caller makes
MaxWrites == 2      \* INSERTs the operation executes during one call
MaxRetries == 3     \* largest `retries` argument tried (0..MaxRetries)
MaxDelay == 2       \* largest `delay` argument tried (1..MaxDelay)
MaxCacheCalls == 3  \* cached calls the caller makes
MaxVersion == 1     \* times the content of users.db changes
MaxParam == 2       \* largest user_id bound to the parameterised query
MaxThreadCalls == 1 \* cached calls each concurrent caller makes
MaxRows == 3        \* rows ever inserted into user_data
MaxDeletes == 1     \* rows ever deleted from user_data
MaxPageSize == 2    \* largest page_size handed to lazy_paginate
MaxAges == 5        \* rows of user_data when the ages are streamed
MaxWiths == 2       \* with statements the context-manager program runs
MaxMessages == 2    \* Message rows ever created
MaxSaves == 2       \* saves of existing messages
MaxRequests == 7    \* requests the middleware ever receives
MaxTicks == 3       \* times the clock advances between requests
TickSeconds == 30   \* seconds the clock advances at a time

VARIABLES
    pc,        \* position of the current call
    deco,      \* composition under with_db_connection: plain, transactional, retry
    conn,      \* the wrapper's local `conn`: none, open, closed
    store,     \* rows durably in users.db
    pending,   \* rows written on the connection and not yet committed
    written,   \* rows the operation wrote during the current call
    exc,       \* the exception in flight (at "done": the one the caller observes)
    result,    \* the value returned to the caller
    events,    \* what the current call did to the store driver, in order
    attempts,  \* outcome of every invocation of the operation in this call
    sleeps,    \* durations of the completed time.sleep calls of this call
    i,         \* retry_on_failure's loop variable
    retries,   \* retry_on_failure's argument
    delay,     \* retry_on_failure's argument
    calls      \* calls made so far

\* 4-cache_query.py: one caller of the cached functions
VARIABLES
    ccache,    \* the global query_cache: cache key -> cached result
    cpc,       \* position of the current cached call
    cquery,    \* its `query` argument
    cparam,    \* its `user_id` argument (0: the function takes none)
    cconn,     \* the wrapper's local `conn`: none, open, closed
    cexc,      \* the exception in flight (at "done": the one the caller observes)
    cresult,   \* the value returned to the caller
    cevents,   \* what the current call did, in order
    cbefore,   \* query_cache as it was when the current call started
    data,      \* version of the content of users.db
    history,   \* the finished calls of cache_query's wrapper since the last clear
    dropped,   \* the keys the last query_cache.clear() removed
    ccalls     \* cached calls made so far

\* 4-cache_query.py: two threads calling the cached functions concurrently
VARIABLES
    tcache,    \* the global query_cache they share
    tdata,     \* version of the content of users.db
    tpc,       \* per thread: position of its call
    tquery,    \* per thread: its `query` argument
    tparam,    \* per thread: its `user_id` argument
    tconn,     \* per thread: its wrapper's local `conn`
    tpath,     \* per thread: none, hit or miss, the branch its lookup took
    tlocal,    \* per thread: cache_query.wrapper's local `result`
    tresult,   \* per thread: the value returned to it
    texc,      \* per thread: the exception it observes
    tlog,      \* the assignments to query_cache, in the order they happened
    raced,     \* a thread missed while the other was between its miss and its store
    tcalls     \* per thread: calls made so far

\* python-generators-0x00/4-stream_ages.py: lazy_paginate and its consumer
VARIABLES
    table,       \* user_data: its rows in the order the store returns them
    inserted,    \* rows inserted so far (the next row is inserted + 1)
    deleted,     \* rows deleted so far
    active,      \* the generators the consumer program creates
    gpc,         \* per generator: where it stands
    page_size,   \* per generator: lazy_paginate's argument
    offset,      \* per generator: lazy_paginate's local `offset`
    page,        \* per generator: lazy_paginate's local `page`
    connection,  \* per generator: paginate_users' local `connection`
    yielded,     \* per generator: the pages handed to the consumer, in order
    fetches,     \* per generator: the paginate_users calls made, in order
    requests,    \* per generator: the consumer's next() calls
    changed,     \* per generator: the table changed since it was created
    present,     \* per generator: the rows every fetch so far found in the table
    disturbed    \* per generator: a row was inserted or deleted among the
                 \* rows it had already fetched

\* python-generators-0x00/4-stream_ages.py: calculate_average_age over
\* stream_user_ages
VARIABLES
    ages,         \* the age column of user_data, in the store's row order
    apc,          \* position of calculate_average_age and of its generator
    sconn,        \* stream_user_ages' local `connection`: none, open, closed
    scursor,      \* stream_user_ages' local `cursor`: none, open, closed
    unread,       \* the rows of the executed query not yet read from the cursor
    age,          \* calculate_average_age's loop variable
    total_age,    \* calculate_average_age's local
    user_count,   \* calculate_average_age's local
    average_age,  \* calculate_average_age's local
    printed,      \* what calculate_average_age and the generator printed
    areturn,      \* what calculate_average_age returned or raised
    streamed,     \* the ages yielded by the generator, in order
    updates,      \* executions of the loop body of calculate_average_age
    divisions     \* executions of the division

\* python-context-async-perations-0x02/3-concurrent.py: fetch_concurrently
VARIABLES
    mainpc,       \* position of fetch_concurrently
    ready,        \* the event loop's queue of tasks ready to run (0 is main)
    qpc,          \* per query task: where it stands
    qdb,          \* per query task: its local `db`, a connection id (0: none)
    qexc,         \* per query task: the exception being raised in it
    qres,         \* per query task: its outcome once it is done
    conns,        \* per connection id opened so far: open or closed
    uses,         \* <<task, connection>> for every statement executed
    gathered,     \* asyncio.gather's future: pending, result or exception
    all_users,    \* fetch_concurrently's local
    older_users,  \* fetch_concurrently's local
    startOrder,   \* the query tasks in the order they started
    finishOrder   \* the query tasks in the order they finished

\* python-context-async-perations-0x02/0-databaseconnection.py, 1-execute.py:
\* one with statement after the other over a context manager
VARIABLES
    manager,     \* the class of the current with statement's manager
    xquery,      \* ExecuteQuery: kind of self.query (select or insert)
    xpc,         \* position in the with statement
    xconn,       \* self.conn: none, open or closed
    xpending,    \* the connection has uncommitted writes
    xcommitted,  \* writes made durable so far
    xblock,      \* how the block ended: none, normal or the exception raised
    xexc,        \* the exception the with statement raises to its caller
    xresults,    \* ExecuteQuery: self.results
    xevents,     \* what was done to the connection, in order
    withs        \* with statements started so far

\* Django-signals_orm-0x04/messaging: the Message, Notification and
\* MessageHistory tables
VARIABLES
    messages,       \* Message rows: pk -> [sender, receiver, content, edited]
    notifications,  \* Notification rows in creation order: [user, message]
    histories,      \* MessageHistory rows in creation order: [message, old_content]
    saves           \* the saves made, in order: [message, created, old, new]

\* Django-Middleware-0x03/chats/middleware.py: the one instance of
\* OffensiveLanguageMiddleware and the requests going through it
VARIABLES
    clock,         \* what time.time() returns, in seconds
    ip_requests,   \* self.ip_requests: per IP the list of timestamps, or Absent
    hpc,           \* per handler thread: where its __call__ stands
    method,        \* per handler thread: request.method
    ip,            \* per handler thread: __call__'s local `ip`
    current_time,  \* per handler thread: __call__'s local `current_time`
    kept,          \* per handler thread: the list the comprehension built
    response,      \* per handler thread: status of the response (0: none yet)
    admitted,      \* per IP: timestamps of the POSTs passed on to get_response
    arrived        \* requests received so far

decoVars == <<pc, deco, conn, store, pending, written, exc, result,
              events, attempts, sleeps, i, retries, delay, calls>>

cacheVars == <<ccache, cpc, cquery, cparam, cconn, cexc, cresult, cevents,
               cbefore, data, history, dropped, ccalls>>

threadVars == <<tcache, tdata, tpc, tquery, tparam, tconn, tpath, tlocal,
                tresult, texc, tlog, raced, tcalls>>

pagerVars == <<table, inserted, deleted, active, gpc, page_size, offset, page,
               connection, yielded, fetches, requests, changed, present,
               disturbed>>

streamVars == <<ages, apc, sconn, scursor, unread, age, total_age, user_count,
                average_age, printed, areturn, streamed, updates, divisions>>

asyncVars == <<mainpc, ready, qpc, qdb, qexc, qres, conns, uses, gathered,
               all_users, older_users, startOrder, finishOrder>>

ctxVars == <<manager, xquery, xpc, xconn, xpending, xcommitted, xblock, xexc,
             xresults, xevents, withs>>

signalVars == <<messages, notifications, histories, saves>>

mwVars == <<clock, ip_requests, hpc, method, ip, current_time, kept, response,
            admitted, arrived>>

vars == <<decoVars, cacheVars, threadVars, pagerVars, streamVars, asyncVars,
          ctxVars, signalVars, mwVars>>

\* what the steps of one program leave alone: the state of the others
otherThanDeco ==
    <<cacheVars, threadVars, pagerVars, streamVars, asyncVars, ctxVars,
      signalVars, mwVars>>
otherThanCache ==
    <<decoVars, threadVars, pagerVars, streamVars, asyncVars, ctxVars,
      signalVars, mwVars>>
otherThanThreads ==
    <<decoVars, cacheVars, pagerVars, streamVars, asyncVars, ctxVars,
      signalVars, mwVars>>
otherThanPager ==
    <<decoVars, cacheVars, threadVars, streamVars, asyncVars, ctxVars,
      signalVars, mwVars>>
otherThanStream ==
    <<decoVars, cacheVars, threadVars, pagerVars, asyncVars, ctxVars,
      signalVars, mwVars>>
otherThanAsync ==
    <<decoVars, cacheVars, threadVars, pagerVars, streamVars, ctxVars,
      signalVars, mwVars>>
otherThanCtx ==
    <<decoVars, cacheVars, threadVars, pagerVars, streamVars, asyncVars,
      signalVars, mwVars>>
otherThanSignals ==
    <<decoVars, cacheVars, threadVars, pagerVars, streamVars, asyncVars,
      ctxVars, mwVars>>
otherThanMw ==
    <<decoVars, cacheVars, threadVars, pagerVars, streamVars, asyncVars,
      ctxVars, signalVars>>

\* ------------------------------------------------------------ exceptions
\* ValueError: an Exception that is not a sqlite3.Error (add_user_and_fail).
\* OperationalError: a sqlite3.Error (the simulated transient failures,
\* a failing connect, commit or rollback).
\* KeyboardInterrupt: a BaseException that is not an Exception (cancellation).
OpFailures == {"ValueError", "OperationalError", "KeyboardInterrupt"}

\* `tag` is whatever a wrapper would add to a failure it re-signals.
Failure(kind, origin) == [kind |-> kind, origin |-> origin, tag |-> "none"]
NoExc == Failure("none", "none")

NoResult == [tag |-> "unset", rows |-> {}]
NoneResult == [tag |-> "None", rows |-> {}]
Value(rows) == [tag |-> "value", rows |-> rows]

Decos == {"plain", "transactional", "retry"}

Max(S) == CHOOSE x \in S : \A y \in S : y <= x

\* INTEGER PRIMARY KEY: a new row gets the largest rowid in sight plus one.
NewId == IF store \cup pending = {} THEN 1 ELSE Max(store \cup pending) + 1

Last(s) == s[Len(s)]

Count(s, e) == Cardinality({k \in 1..Len(s) : s[k] = e})

\* ------------------------------------------------------------- cache_query
\* The two query texts of __main__ that matter: one without parameters
\* ("SELECT * FROM users") and one with a bound user_id
\* ("SELECT * FROM users WHERE id = ?").
Queries == {"all", "byid"}
ParamsOf(q) == IF q = "byid" THEN 1..MaxParam ELSE {0}

\* What executing query q with parameter p yields on content version v.
Compute(q, p, v) == [query |-> q, param |-> p, version |-> v]

EmptyCache == <<>>

\* Mutant: the key also holds the bound parameter.
CacheKey_WithParams(q, p) == <<q, p>>

\* cache_key = query
CacheKey(q, p) == <<q>>

\* query_cache = {}; nothing has been called yet.
CacheInit ==
    /\ ccache = EmptyCache
    /\ cpc = "idle"
    /\ cquery = "all"
    /\ cparam = 0
    /\ cconn = "none"
    /\ cexc = NoExc
    /\ cresult = NoResult
    /\ cevents = <<>>
    /\ cbefore = EmptyCache
    /\ data = 0
    /\ history = <<>>
    /\ dropped = {}
    /\ ccalls = 0

\* an average not computed / a value not returned
Unset == [tag |-> "unset"]

\* Python's None
None == [tag |-> "None"]

\* SignalTest.setUp: two users, no message yet.
SignalsInit ==
    /\ messages = <<>>
    /\ notifications = <<>>
    /\ histories = <<>>
    /\ saves = <<>>

\* No with statement has run; setup_database has committed its sample rows.
CtxInit ==
    /\ manager = "DatabaseConnection"
    /\ xquery = "none"
    /\ xpc = "idle"
    /\ xconn = "none"
    /\ xpending = FALSE
    /\ xcommitted = 0
    /\ xblock = "none"
    /\ xexc = NoExc
    /\ xresults = Unset
    /\ xevents = <<>>
    /\ withs = 0

\* the two coroutines handed to asyncio.gather, in the order they are passed:
\* 1 is async_fetch_users, 2 is async_fetch_older_users
Tasks == {1, 2}

\* asyncio.run(fetch_concurrently()) not started.
AsyncInit ==
    /\ mainpc = "idle"
    /\ ready = <<>>
    /\ qpc = [t \in Tasks |-> "none"]
    /\ qdb = [t \in Tasks |-> 0]
    /\ qexc = [t \in Tasks |-> "none"]
    /\ qres = [t \in Tasks |-> Unset]
    /\ conns = <<>>
    /\ uses = {}
    /\ gathered = "pending"
    /\ all_users = Unset
    /\ older_users = Unset
    /\ startOrder = <<>>
    /\ finishOrder = <<>>

\* the ages a row of user_data can have
AgeValues == {22, 28, 30, 45, 50}

\* user_data is empty until it is seeded; calculate_average_age not called.
StreamInit ==
    /\ ages = <<>>
    /\ apc = "idle"
    /\ sconn = "none"
    /\ scursor = "none"
    /\ unread = <<>>
    /\ age = 0
    /\ total_age = 0
    /\ user_count = 0
    /\ average_age = Unset
    /\ printed = <<>>
    /\ areturn = Unset
    /\ streamed = <<>>
    /\ updates = 0
    /\ divisions = 0

Pagers == {1, 2}

\* user_data is empty until it is seeded; no generator exists yet.  `runs` are
\* the generators the consumer program is going to create.
PagerInit(runs) ==
    /\ table = <<>>
    /\ inserted = 0
    /\ deleted = 0
    /\ active = runs
    /\ gpc = [g \in Pagers |-> "new"]
    /\ page_size = [g \in Pagers |-> 0]
    /\ offset = [g \in Pagers |-> 0]
    /\ page = [g \in Pagers |-> <<>>]
    /\ connection = [g \in Pagers |-> "none"]
    /\ yielded = [g \in Pagers |-> <<>>]
    /\ fetches = [g \in Pagers |-> <<>>]
    /\ requests = [g \in Pagers |-> 0]
    /\ changed = [g \in Pagers |-> FALSE]
    /\ present = [g \in Pagers |-> {}]
    /\ disturbed = [g \in Pagers |-> FALSE]

Threads == {1, 2}
Other(t) == 3 - t

\* query_cache = {}; no thread has called anything yet.
ThreadsInit ==
    /\ tcache = EmptyCache
    /\ tdata = 0
    /\ tpc = [t \in Threads |-> "idle"]
    /\ tquery = [t \in Threads |-> "all"]
    /\ tparam = [t \in Threads |-> 0]
    /\ tconn = [t \in Threads |-> "none"]
    /\ tpath = [t \in Threads |-> "none"]
    /\ tlocal = [t \in Threads |-> NoResult]
    /\ tresult = [t \in Threads |-> NoResult]
    /\ texc = [t \in Threads |-> NoExc]
    /\ tlog = <<>>
    /\ raced = FALSE
    /\ tcalls = [t \in Threads |-> 0]

\* setup_database: Alice (1) and Bob (2) are committed.
DecoInit ==
    /\ pc = "idle"
    /\ deco = "plain"
    /\ conn = "none"
    /\ store = {1, 2}
    /\ pending = {}
    /\ written = {}
    /\ exc = NoExc
    /\ result = NoResult
    /\ events = <<>>
    /\ attempts = <<>>
    /\ sleeps = <<>>
    /\ i = 0
    /\ retries = 0
    /\ delay = 1
    /\ calls = 0

IPs == {"10.0.0.1", "10.0.0.2"}
Methods == {"GET", "POST"}
Handlers == {1, 2}
Absent == <<-1>>

\* __init__: self.ip_requests = {}; no request has arrived.
MwInit ==
    /\ clock = 0
    /\ ip_requests = [a \in IPs |-> Absent]
    /\ hpc = [h \in Handlers |-> "idle"]
    /\ method = [h \in Handlers |-> "GET"]
    /\ ip = [h \in Handlers |-> "10.0.0.1"]
    /\ current_time = [h \in Handlers |-> 0]
    /\ kept = [h \in Handlers |-> <<>>]
    /\ response = [h \in Handlers |-> 0]
    /\ admitted = [a \in IPs |-> <<>>]
    /\ arrived = 0

\* the programs other than the pager's consumer, before they run
OthersInit ==
    /\ DecoInit
    /\ CacheInit
    /\ ThreadsInit
    /\ StreamInit
    /\ AsyncInit
    /\ CtxInit
    /\ SignalsInit
    /\ MwInit

\* The consumer program makes one lazy_paginate run.
Init == OthersInit /\ PagerInit({1})

\* The consumer program makes two lazy_paginate runs.
InitTwoRuns == OthersInit /\ PagerInit({1, 2})

\* ---------------------------------------------------- with_db_connection
\* The caller invokes the decorated function: wrapper starts, conn = None.
Call ==
    /\ pc \in {"idle", "done"}
    /\ calls < MaxCalls
    /\ calls' = calls + 1
    /\ \E d \in Decos, r \in 0..MaxRetries, dl \in 1..MaxDelay :
          /\ deco' = d
          /\ retries' = IF d = "retry" THEN r ELSE 0
          /\ delay' = IF d = "retry" THEN dl ELSE 1
    /\ pc' = "connect"
    /\ conn' = "none"
    /\ pending' = {}
    /\ written' = {}
    /\ exc' = NoExc
    /\ result' = NoResult
    /\ events' = <<>>
    /\ attempts' = <<>>
    /\ sleeps' = <<>>
    /\ i' = 0
    /\ UNCHANGED store
    /\ UNCHANGED otherThanDeco

\* conn = sqlite3.connect('users.db') succeeds; func(conn, ...) is called.
Connect ==
    /\ pc = "connect"
    /\ conn' = "open"
    /\ events' = Append(events, "open")
    /\ pc' = IF deco = "retry" THEN "loop" ELSE "op"
    /\ UNCHANGED <<deco, store, pending, written, exc, result,
                   attempts, sleeps, i, retries, delay, calls>>
    /\ UNCHANGED otherThanDeco

\* Mutant: a failed connect is tried again instead of being re-raised.
ConnectFail_Retried ==
    /\ pc = "connect"
    /\ exc' = Failure("OperationalError", "connect")
    /\ pc' = "connect"
    /\ UNCHANGED <<deco, conn, store, pending, written, result,
                   events, attempts, sleeps, i, retries, delay, calls>>
    /\ UNCHANGED otherThanDeco

\* sqlite3.connect raises: conn stays None, the error is re-raised.
ConnectFail ==
    /\ pc = "connect"
    /\ exc' = Failure("OperationalError", "connect")
    /\ pc' = "finally"
    /\ UNCHANGED <<deco, conn, store, pending, written, result,
                   events, attempts, sleeps, i, retries, delay, calls>>
    /\ UNCHANGED otherThanDeco

\* Mutant: the finally clause that forgets to close.
FinallyCloses_Never(c) == FALSE

\* finally: if conn: conn.close().  Closing discards what is uncommitted.
FinallyCloses(c) == c = "open"

Finally ==
    /\ pc = "finally"
    /\ IF FinallyCloses(conn)
          THEN /\ conn' = "closed"
               /\ pending' = {}
               /\ events' = Append(events, "close")
          ELSE UNCHANGED <<conn, pending, events>>
    /\ pc' = "done"
    /\ UNCHANGED <<deco, store, written, exc, result, attempts,
                   sleeps, i, retries, delay, calls>>
    /\ UNCHANGED otherThanDeco

\* ---------------------------------------------------------- the operation
\* cursor.execute("INSERT ..."): the row is visible on this connection only.
OpWrite ==
    /\ pc = "op"
    /\ Cardinality(written) < MaxWrites
    /\ pending' = pending \cup {NewId}
    /\ written' = written \cup {NewId}
    /\ UNCHANGED <<pc, deco, conn, store, exc, result, events, attempts,
                   sleeps, i, retries, delay, calls>>
    /\ UNCHANGED otherThanDeco

\* conn.commit() inside the operation (add_new_user, insert_data_with_retry);
\* the operations under transactional leave the commit to the decorator.
OpCommit ==
    /\ pc = "op"
    /\ deco # "transactional"
    /\ pending # {}
    /\ store' = store \cup pending
    /\ pending' = {}
    /\ events' = Append(events, "opcommit")
    /\ UNCHANGED <<pc, deco, conn, written, exc, result, attempts,
                   sleeps, i, retries, delay, calls>>
    /\ UNCHANGED otherThanDeco

\* What the operation returns: the rows it sees on its connection.
OpValue == Value(store \cup pending)

Returned == [outcome |-> "return", value |-> OpValue]
Raised(kind) == [outcome |-> kind, value |-> NoResult]

\* -------------------------------------------------- plain (no inner decorator)
PlainReturn ==
    /\ pc = "op"
    /\ deco = "plain"
    /\ attempts' = Append(attempts, Returned)
    /\ result' = OpValue
    /\ pc' = "finally"
    /\ UNCHANGED <<deco, conn, store, pending, written, exc, events,
                   sleeps, i, retries, delay, calls>>
    /\ UNCHANGED otherThanDeco

PlainRaise ==
    /\ pc = "op"
    /\ deco = "plain"
    /\ \E kind \in OpFailures :
          /\ attempts' = Append(attempts, Raised(kind))
          /\ exc' = Failure(kind, "op")
    /\ pc' = "finally"
    /\ UNCHANGED <<deco, conn, store, pending, written, result, events,
                   sleeps, i, retries, delay, calls>>
    /\ UNCHANGED otherThanDeco

\* ----------------------------------------------------------- transactional
\* Mutant: `except sqlite3.Error` in place of `except Exception`.
TransactionalCatches_SqliteOnly(kind) == kind = "OperationalError"

\* `except Exception`: what the handler of transactional catches.
TransactionalCatches(kind) == kind \in {"ValueError", "OperationalError"}

\* The bare `raise` after the rollback re-raises the handled exception.
TransactionalReraise(e) == e

\* Mutant: the wrapper that returns the result without committing.
TxReturn_NoCommit ==
    /\ pc = "op"
    /\ deco = "transactional"
    /\ attempts' = Append(attempts, Returned)
    /\ result' = OpValue
    /\ pc' = "finally"
    /\ UNCHANGED <<deco, conn, store, pending, written, exc, events,
                   sleeps, i, retries, delay, calls>>
    /\ UNCHANGED otherThanDeco

\* result = func(conn, ...) returns; conn.commit() is next.
TxReturn ==
    /\ pc = "op"
    /\ deco = "transactional"
    /\ attempts' = Append(attempts, Returned)
    /\ pc' = "commit"
    /\ UNCHANGED <<deco, conn, store, pending, written, exc, result,
                   events, sleeps, i, retries, delay, calls>>
    /\ UNCHANGED otherThanDeco

\* func raises: an Exception goes to the handler, anything else passes through.
TxRaise ==
    /\ pc = "op"
    /\ deco = "transactional"
    /\ \E kind \in OpFailures :
          /\ attempts' = Append(attempts, Raised(kind))
          /\ exc' = Failure(kind, "op")
          /\ pc' = IF TransactionalCatches(kind) THEN "rollback" ELSE "finally"
    /\ UNCHANGED <<deco, conn, store, pending, written, result, events,
                   sleeps, i, retries, delay, calls>>
    /\ UNCHANGED otherThanDeco

\* conn.commit() succeeds; return result.
Commit ==
    /\ pc = "commit"
    /\ store' = store \cup pending
    /\ pending' = {}
    /\ events' = Append(events, "commit")
    /\ result' = Last(attempts).value
    /\ pc' = "finally"
    /\ UNCHANGED <<deco, conn, written, exc, attempts, sleeps, i,
                   retries, delay, calls>>
    /\ UNCHANGED otherThanDeco

\* conn.commit() raises inside the try block: the handler runs.
CommitFail ==
    /\ pc = "commit"
    /\ events' = Append(events, "commit_failed")
    /\ exc' = Failure("OperationalError", "commit")
    /\ pc' = IF TransactionalCatches("OperationalError") THEN "rollback" ELSE "finally"
    /\ UNCHANGED <<deco, conn, store, pending, written, result,
                   attempts, sleeps, i, retries, delay, calls>>
    /\ UNCHANGED otherThanDeco

\* Mutant: the handler that commits where it should roll back.
Rollback_Commits ==
    /\ pc = "rollback"
    /\ store' = store \cup pending
    /\ pending' = {}
    /\ events' = Append(events, "rollback")
    /\ exc' = TransactionalReraise(exc)
    /\ pc' = "finally"
    /\ UNCHANGED <<deco, conn, written, result, attempts,
                   sleeps, i, retries, delay, calls>>
    /\ UNCHANGED otherThanDeco

\* conn.rollback() succeeds; raise.
Rollback ==
    /\ pc = "rollback"
    /\ pending' = {}
    /\ events' = Append(events, "rollback")
    /\ exc' = TransactionalReraise(exc)
    /\ pc' = "finally"
    /\ UNCHANGED <<deco, conn, store, written, result, attempts,
                   sleeps, i, retries, delay, calls>>
    /\ UNCHANGED otherThanDeco

\* Mutant: the rollback's own error is caught and dropped.
RollbackFail_Swallowed ==
    /\ pc = "rollback"
    /\ events' = Append(events, "rollback_failed")
    /\ pc' = "finally"
    /\ UNCHANGED <<deco, conn, store, pending, written, exc, result,
                   attempts, sleeps, i, retries, delay, calls>>
    /\ UNCHANGED otherThanDeco

\* conn.rollback() raises inside the handler: its error replaces the handled one.
RollbackFail ==
    /\ pc = "rollback"
    /\ events' = Append(events, "rollback_failed")
    /\ exc' = Failure("OperationalError", "rollback")
    /\ pc' = "finally"
    /\ UNCHANGED <<deco, conn, store, pending, written, result,
                   attempts, sleeps, i, retries, delay, calls>>
    /\ UNCHANGED otherThanDeco

\* -------------------------------------------------------- retry_on_failure
\* Mutant: only the transient kind is retried.
RetryCatches_TransientOnly(kind) == kind = "OperationalError"

\* `except Exception`: what the handler of retry_on_failure catches.
RetryCatches(kind) == kind \in {"ValueError", "OperationalError"}

\* Mutant: off by one, the last attempt sleeps too and nothing is raised.
ShouldSleep_OffByOne(idx, n) == idx < n

\* if i < retries - 1: sleep and go round again; else: raise.
ShouldSleep(idx, n) == idx < n - 1

\* Mutant: a delay that grows with the attempt.
SleepDuration_Linear(d, idx) == d * (idx + 1)

\* time.sleep(delay)
SleepDuration(d, idx) == d

\* The bare `raise` of the last attempt re-raises the handled exception.
RetryReraise(e) == e

\* Mutant: the interrupted sleep is swallowed and the loop goes on.
AfterCancelledSleep_Continue == "loop"

\* An exception raised by time.sleep inside the handler leaves the wrapper.
AfterCancelledSleep == "finally"

\* for i in range(retries): the next round starts, func is called.
RetryAttempt ==
    /\ pc = "loop"
    /\ i < retries
    /\ events' = Append(events, "attempt")
    /\ pc' = "op"
    /\ UNCHANGED <<deco, conn, store, pending, written, exc, result, attempts,
                   sleeps, i, retries, delay, calls>>
    /\ UNCHANGED otherThanDeco

\* range(retries) is exhausted without a return or a raise: wrapper returns None.
RetryFallThrough ==
    /\ pc = "loop"
    /\ ~(i < retries)
    /\ result' = NoneResult
    /\ pc' = "finally"
    /\ UNCHANGED <<deco, conn, store, pending, written, exc, events,
                   attempts, sleeps, i, retries, delay, calls>>
    /\ UNCHANGED otherThanDeco

\* Mutant: func is called without `return`, the loop goes on.
RetryReturn_NoReturn ==
    /\ pc = "op"
    /\ deco = "retry"
    /\ attempts' = Append(attempts, Returned)
    /\ i' = i + 1
    /\ pc' = "loop"
    /\ UNCHANGED <<deco, conn, store, pending, written, exc, result,
                   events, sleeps, retries, delay, calls>>
    /\ UNCHANGED otherThanDeco

\* return func(*args, **kwargs)
RetryReturn ==
    /\ pc = "op"
    /\ deco = "retry"
    /\ attempts' = Append(attempts, Returned)
    /\ result' = OpValue
    /\ pc' = "finally"
    /\ UNCHANGED <<deco, conn, store, pending, written, exc, events,
                   sleeps, i, retries, delay, calls>>
    /\ UNCHANGED otherThanDeco

\* Mutant: the handler rolls the failed attempt back before going on.
RetryRaise_RollsBack ==
    /\ pc = "op"
    /\ deco = "retry"
    /\ pending' = {}
    /\ \E kind \in OpFailures :
          /\ attempts' = Append(attempts, Raised(kind))
          /\ IF RetryCatches(kind)
                THEN IF ShouldSleep(i, retries)
                        THEN /\ exc' = Failure(kind, "op")
                             /\ pc' = "sleep"
                        ELSE /\ exc' = RetryReraise(Failure(kind, "op"))
                             /\ pc' = "finally"
                ELSE /\ exc' = Failure(kind, "op")
                     /\ pc' = "finally"
    /\ UNCHANGED <<deco, conn, store, written, result, events,
                   sleeps, i, retries, delay, calls>>
    /\ UNCHANGED otherThanDeco

\* func raises: an Exception is handled (sleep or re-raise), anything else passes.
RetryRaise ==
    /\ pc = "op"
    /\ deco = "retry"
    /\ \E kind \in OpFailures :
          /\ attempts' = Append(attempts, Raised(kind))
          /\ IF RetryCatches(kind)
                THEN IF ShouldSleep(i, retries)
                        THEN /\ exc' = Failure(kind, "op")
                             /\ pc' = "sleep"
                        ELSE /\ exc' = RetryReraise(Failure(kind, "op"))
                             /\ pc' = "finally"
                ELSE /\ exc' = Failure(kind, "op")
                     /\ pc' = "finally"
    /\ UNCHANGED <<deco, conn, store, pending, written, result, events,
                   sleeps, i, retries, delay, calls>>
    /\ UNCHANGED otherThanDeco

\* time.sleep(delay) returns; the handler ends and the loop goes on.
Sleep ==
    /\ pc = "sleep"
    /\ sleeps' = Append(sleeps, SleepDuration(delay, i))
    /\ events' = Append(events, "sleep")
    /\ exc' = NoExc
    /\ i' = i + 1
    /\ pc' = "loop"
    /\ UNCHANGED <<deco, conn, store, pending, written, result,
                   attempts, retries, delay, calls>>
    /\ UNCHANGED otherThanDeco

\* KeyboardInterrupt arrives during time.sleep(delay).
SleepCancel ==
    /\ pc = "sleep"
    /\ events' = Append(events, "sleep_cancelled")
    /\ exc' = Failure("KeyboardInterrupt", "sleep")
    /\ pc' = AfterCancelledSleep
    /\ UNCHANGED <<deco, conn, store, pending, written, result,
                   attempts, sleeps, i, retries, delay, calls>>
    /\ UNCHANGED otherThanDeco

Next ==
    \/ Call
    \/ Connect
    \/ ConnectFail
    \/ Finally
    \/ OpWrite
    \/ OpCommit
    \/ PlainReturn
    \/ PlainRaise
    \/ TxReturn
    \/ TxRaise
    \/ Commit
    \/ CommitFail
    \/ Rollback
    \/ RollbackFail
    \/ RetryAttempt
    \/ RetryFallThrough
    \/ RetryReturn
    \/ RetryRaise
    \/ Sleep
    \/ SleepCancel

Spec == Init /\ [][Next]_vars

\* ------------------------------------------------------------ vocabulary
Done == pc = "done"
Tx == deco = "transactional"
Retry == deco = "retry"
ExceptionKinds == {"ValueError", "OperationalError"}
OpReturned == attempts # <<>> /\ Last(attempts).outcome = "return"
OpRaised == attempts # <<>> /\ Last(attempts).outcome \in OpFailures
OpRaisedException == attempts # <<>> /\ Last(attempts).outcome \in ExceptionKinds
CommitInvocations == Count(events, "commit") + Count(events, "commit_failed")
RollbackInvocations == Count(events, "rollback") + Count(events, "rollback_failed")
Opens == Count(events, "open")
Closes == Count(events, "close")
Has(e) == \E k \in 1..Len(events) : events[k] = e
\* some a-event comes before some b-event
Before(a, b) == \E k, l \in 1..Len(events) : k < l /\ events[k] = a /\ events[l] = b
IsTry(e) == e \in {"attempt", "sleep", "sleep_cancelled"}
Tries == SelectSeq(events, IsTry)
Started == Count(events, "attempt")

\* ------------------------------------------------------------------- C1
\* C1 (as stated): whenever the operation under with_db_connection and
\* transactional returned normally, the finished call invoked commit exactly
\* once, rollback never, and closed the connection exactly once, after the commit.
C1_Original ==
    (Done /\ Tx /\ OpReturned) =>
        /\ CommitInvocations = 1
        /\ RollbackInvocations = 0
        /\ Closes = 1
        /\ Before("commit", "close") \/ Before("commit_failed", "close")

\* C1 (amended): whenever the operation returned normally, the finished call
\* invoked commit exactly once and closed the connection exactly once, after
\* the commit; rollback was not invoked if the commit completed and was
\* invoked exactly once if the commit itself failed.
C1_CommitOnceCloseOnce ==
    (Done /\ Tx /\ OpReturned) =>
        /\ CommitInvocations = 1
        /\ Closes = 1
        /\ Last(events) = "close"
        /\ Before("commit", "close") \/ Before("commit_failed", "close")
        /\ Has("commit") => RollbackInvocations = 0
        /\ Has("commit_failed") => RollbackInvocations = 1

C1_Witness ==
    Done /\ Tx /\ OpReturned /\ written # {} /\ Has("commit") /\ Closes = 1

\* ------------------------------------------------------------------- C2
\* C2 (as stated): whenever the wrapped operation raised, the finished call
\* invoked rollback exactly once and commit never, and the caller observes the
\* very failure the operation raised.
C2_Original ==
    (Done /\ Tx /\ OpRaised) =>
        /\ RollbackInvocations = 1
        /\ CommitInvocations = 0
        /\ exc = Failure(Last(attempts).outcome, "op")

\* C2 (amended): whenever the wrapped operation raised a failure derived from
\* Exception, rollback is invoked exactly once and commit never, before the
\* failure leaves the connection scope; the caller observes the very failure
\* the operation raised if the rollback completed, and the rollback's own
\* failure if it did not.  A failure not derived from Exception
\* (KeyboardInterrupt) reaches the caller unchanged without any rollback.
C2_RollbackOnceSameFailure ==
    (Tx /\ OpRaised /\ pc \in {"finally", "done"}) =>
        /\ CommitInvocations = 0
        /\ OpRaisedException =>
              /\ RollbackInvocations = 1
              /\ Done => (Before("rollback", "close") \/ Before("rollback_failed", "close"))
              /\ Has("rollback") => exc = Failure(Last(attempts).outcome, "op")
              /\ Has("rollback_failed") => exc = Failure("OperationalError", "rollback")
        /\ ~OpRaisedException =>
              /\ RollbackInvocations = 0
              /\ exc = Failure("KeyboardInterrupt", "op")

C2_Witness ==
    /\ Done /\ Tx /\ Has("rollback") /\ written # {}
    /\ Last(attempts).outcome = "ValueError"
    /\ exc = Failure("ValueError", "op")

\* ------------------------------------------------------------------- C3
\* C3 (as stated): after the call has returned to the caller, the store
\* contains the operation's writes if and only if the operation returned
\* without failure; an operation that wrote and then raised leaves its rows
\* absent and the caller observes the raised failure.
C3_Original ==
    (Done /\ Tx /\ written # {}) =>
        /\ (written \subseteq store) <=> OpReturned
        /\ OpRaised => /\ written \cap store = {}
                       /\ exc = Failure(Last(attempts).outcome, "op")

\* C3 (amended): after the call has returned to the caller, the store contains
\* the operation's writes if and only if the operation returned without
\* failure and the commit completed; an operation that wrote and then raised
\* leaves its rows absent and the caller observes the raised failure, or the
\* rollback's failure when the rollback itself failed.
C3_DurableIffCommitted ==
    (Done /\ Tx /\ written # {}) =>
        /\ (written \subseteq store) <=> (OpReturned /\ Has("commit"))
        /\ ~(OpReturned /\ Has("commit")) => written \cap store = {}
        /\ (written \subseteq store) => exc = NoExc /\ result = Last(attempts).value
        /\ OpRaised =>
              /\ written \cap store = {}
              /\ exc = IF Has("rollback_failed")
                          THEN Failure("OperationalError", "rollback")
                          ELSE Failure(Last(attempts).outcome, "op")

C3_Witness ==
    /\ Done /\ Tx /\ written # {} /\ written \cap store = {}
    /\ Last(attempts).outcome = "ValueError"
    /\ exc = Failure("ValueError", "op")

\* ------------------------------------------------------------------- C4
\* C4: in every call through with_db_connection, on normal return, on a
\* failure and on cancellation alike, a connection that was opened is closed
\* exactly once and none is open when control is back with the caller.
C4_ClosedExactlyOnce ==
    /\ Opens <= 1
    /\ Closes <= Opens
    /\ (conn = "open") <=> (Opens = 1 /\ Closes = 0)
    /\ (conn = "none") <=> (Opens = 0)
    /\ Done => (Closes = Opens /\ conn # "open")

C4_Witness ==
    /\ Done /\ exc.kind = "KeyboardInterrupt" /\ Opens = 1 /\ Closes = 1
    /\ conn = "closed"

\* ------------------------------------------------------------------- C5
\* C5 (as stated): when commit or rollback itself fails, the caller observes a
\* failure of kind TransactionError.
C5_Original ==
    (Done /\ Tx /\ (Has("commit_failed") \/ Has("rollback_failed"))) =>
        exc.kind = "TransactionError"

\* C5 (amended): when commit or rollback itself fails, the caller observes the
\* store driver's own error, unchanged (there is no TransactionError kind, and
\* the kind may coincide with the kind of the operation's failure): the
\* rollback's error when the rollback failed, else the commit's error.  It is
\* never swallowed: no result is returned.
C5_StoreFailureSurfaces ==
    (Done /\ Tx /\ (Has("commit_failed") \/ Has("rollback_failed"))) =>
        /\ result = NoResult
        /\ exc = IF Has("rollback_failed")
                    THEN Failure("OperationalError", "rollback")
                    ELSE Failure("OperationalError", "commit")

C5_Witness ==
    /\ Done /\ Tx /\ Has("rollback_failed") /\ OpRaised
    /\ Last(attempts).outcome = "OperationalError"
    /\ exc = Failure("OperationalError", "rollback")

\* ------------------------------------------------------------------- C6
\* A finished retry call, retries >= 1, in which every invocation of the
\* operation failed with an Exception and no wait was cancelled.
AlwaysFailed ==
    /\ Done /\ Retry /\ retries >= 1 /\ attempts # <<>>
    /\ \A k \in 1..Len(attempts) : attempts[k].outcome \in ExceptionKinds
    /\ ~Has("sleep_cancelled")

\* C6 (as stated): when the operation fails on every attempt it is invoked
\* exactly N times and the surfaced failure is tagged "exhausted".
C6_Original ==
    AlwaysFailed => (Len(attempts) = retries /\ exc.tag = "exhausted")

\* C6 (amended): when the operation fails on every attempt it is invoked
\* exactly N times and the failure surfaced is the last attempt's failure,
\* re-raised unchanged: it carries no tag and is the same as a single failure.
C6_ExactlyNAttemptsLastFailure ==
    AlwaysFailed =>
        /\ Len(attempts) = retries
        /\ Started = retries
        /\ exc = Failure(Last(attempts).outcome, "op")
        /\ result = NoResult

C6_Witness ==
    /\ AlwaysFailed /\ retries = 3 /\ Len(attempts) = 3
    /\ attempts[1].outcome = "OperationalError"
    /\ attempts[3].outcome = "ValueError"
    /\ exc = Failure("ValueError", "op")

\* ------------------------------------------------------------------- C7
\* C7: once an attempt k has succeeded, it is the last invocation of the
\* operation (k invocations, k-1 delays before it, none after), the wrapper
\* is on its way out, and the caller receives that attempt's result.
C7_SuccessEndsRetry ==
    Retry =>
        \A k \in 1..Len(attempts) :
            attempts[k].outcome = "return" =>
                /\ k = Len(attempts)
                /\ k <= retries
                /\ Started = k
                /\ Len(sleeps) = k - 1
                /\ Count(events, "sleep") = k - 1
                /\ ~Has("sleep_cancelled")
                /\ pc \in {"finally", "done"}
                /\ result = attempts[k].value
                /\ exc = NoExc

C7_Witness ==
    /\ Done /\ Retry /\ retries = 3 /\ Len(attempts) = 2
    /\ attempts[1].outcome = "OperationalError"
    /\ attempts[2].outcome = "return"
    /\ result = attempts[2].value /\ Len(sleeps) = 1

\* ------------------------------------------------------------------- C8
\* A permanent failure: bad input, which no retry changes (the ValueError of
\* add_user_and_fail); OperationalError is what the source's transient
\* failures raise.
Permanent == {"ValueError"}

\* C8 (as stated): after a permanent failure on attempt k no delay is taken
\* and no attempt k+1 occurs.
C8_Original ==
    Retry =>
        \A k \in 1..Len(attempts) :
            attempts[k].outcome \in Permanent =>
                (k = Len(attempts) /\ pc \in {"finally", "done"})

\* C8 (amended): the retry layer does not classify failures: after any
\* Exception on attempt k < N, permanent or not, the delay is taken and attempt
\* k+1 follows unless the delay is cancelled; a failure is re-signaled at once
\* only on attempt N, or when it is not derived from Exception.
C8_EveryExceptionRetried ==
    Retry =>
        \A k \in 1..Len(attempts) :
            LET o == attempts[k].outcome
                last == (k = Len(attempts))
            IN  /\ (o \in ExceptionKinds /\ k < retries /\ last) =>
                      \/ pc = "sleep"
                      \/ pc = "loop" /\ Len(sleeps) = k
                      \/ pc = "op" /\ Started = k + 1
                      \/ Has("sleep_cancelled")
                /\ (o \in ExceptionKinds /\ k >= retries) =>
                      /\ last /\ k = retries /\ pc \in {"finally", "done"}
                      /\ exc = Failure(o, "op")
                /\ (o = "KeyboardInterrupt") =>
                      /\ last /\ pc \in {"finally", "done"}
                      /\ exc = Failure(o, "op")
                      /\ Len(sleeps) = k - 1

C8_Witness ==
    /\ Done /\ Retry /\ retries = 2 /\ Len(attempts) = 2
    /\ attempts[1].outcome = "ValueError"
    /\ attempts[2].outcome = "return"
    /\ Len(sleeps) = 1

\* ------------------------------------------------------------------- C9
\* C9: attempts and completed delays alternate, starting with an attempt;
\* every delay has the configured length; a finished call that made a >= 1
\* attempts took a-1 delays, its last attempt followed by none.  (A wait
\* aborted by cancellation is no delay and is followed by no attempt.)
C9_FixedDelayBetweenAttempts ==
    Retry =>
        /\ \A k \in 1..Len(sleeps) : sleeps[k] = delay
        /\ Len(sleeps) = Count(events, "sleep")
        /\ \A k \in 1..Len(Tries) :
              /\ (k % 2 = 1) => Tries[k] = "attempt"
              /\ (k % 2 = 0) => Tries[k] \in {"sleep", "sleep_cancelled"}
        /\ (pc = "op") => (Started = i + 1 /\ Len(sleeps) = i)
        /\ (Done /\ Started >= 1) => Len(sleeps) = Started - 1
        /\ (Done /\ Started >= 1 /\ ~Has("sleep_cancelled")) => Last(Tries) = "attempt"

C9_Witness ==
    /\ Done /\ Retry /\ Started = 3 /\ Len(sleeps) = 2 /\ delay = 2
    /\ sleeps = <<2, 2>>

\* ------------------------------------------------------------------ C10
\* C10: once a wait between attempts has been cancelled, the wait is over, a
\* KeyboardInterrupt is on its way to the caller (and is what the caller
\* observes), no result is returned and no further attempt is started.
C10_CancelledSleepAborts ==
    (Retry /\ Has("sleep_cancelled")) =>
        /\ pc \in {"finally", "done"}
        /\ exc = Failure("KeyboardInterrupt", "sleep")
        /\ result = NoResult
        /\ Last(Tries) = "sleep_cancelled"
        /\ Count(events, "sleep_cancelled") = 1
        /\ Started = Len(attempts)

C10_Witness ==
    /\ Done /\ Retry /\ Has("sleep_cancelled") /\ Started = 2
    /\ exc.kind = "KeyboardInterrupt" /\ conn = "closed"


\* ------------------------------------------------------------------ C11
\* C11 (as stated): retry is the outermost layer, so every attempt runs on a
\* connection of its own: while attempt k runs, k connections have been
\* opened and k-1 of them closed.
C11_Original ==
    (Retry /\ pc = "op") => (Opens = Started /\ Closes = Started - 1)

\* C11 (amended): with_db_connection is the outermost layer and retry is
\* inside it: a call opens at most one connection, before its first attempt,
\* every attempt runs on that connection, which is closed only after the last
\* attempt; a failure to open the connection is re-raised without any attempt
\* or delay, so it is not retried.
C11_OneConnectionForAllAttempts ==
    Retry =>
        /\ Opens <= 1
        /\ Started >= 1 => Opens = 1
        /\ ~Before("close", "attempt")
        /\ ~Before("attempt", "open")
        /\ pc \in {"loop", "op", "sleep"} => (conn = "open" /\ Closes = 0)
        /\ exc.origin = "connect" =>
              /\ pc \in {"finally", "done"}
              /\ Started = 0 /\ sleeps = <<>> /\ Opens = 0 /\ result = NoResult

C11_Witness ==
    /\ Done /\ Retry /\ Started = 3 /\ Opens = 1 /\ Closes = 1
    /\ events[1] = "open" /\ Last(events) = "close"

\* =========================================================================
\* 4-cache_query.py: with_db_connection(cache_query(func)), called with a
\* query text and, for fetch_user_by_id_with_cache, a user_id.
\* =========================================================================
CHas(e) == \E k \in 1..Len(cevents) : cevents[k] = e
CBefore(a, b) ==
    \E k, l \in 1..Len(cevents) : k < l /\ cevents[k] = a /\ cevents[l] = b

Key == CacheKey(cquery, cparam)

Put(cache, k, v) ==
    [x \in DOMAIN cache \cup {k} |-> IF x = k THEN v ELSE cache[x]]

\* The finished call, as the caller saw it.
CallRecord ==
    [query |-> cquery, param |-> cparam,
     outcome |-> IF CHas("hit") THEN "hit"
                 ELSE IF cexc # NoExc THEN "failed" ELSE "computed",
     computes |-> Count(cevents, "execute"),
     result |-> cresult]

\* The caller invokes a cached function: with_db_connection's wrapper starts.
CacheCall ==
    /\ cpc \in {"idle", "done"}
    /\ ccalls < MaxCacheCalls
    /\ ccalls' = ccalls + 1
    /\ \E q \in Queries : \E p \in ParamsOf(q) :
          /\ cquery' = q
          /\ cparam' = p
    /\ cpc' = "connect"
    /\ cconn' = "none"
    /\ cexc' = NoExc
    /\ cresult' = NoResult
    /\ cevents' = <<>>
    /\ cbefore' = ccache
    /\ UNCHANGED <<ccache, data, history, dropped>>
    /\ UNCHANGED otherThanCache

\* conn = sqlite3.connect('users.db') succeeds; cache_query's wrapper is called.
CacheConnect ==
    /\ cpc = "connect"
    /\ cconn' = "open"
    /\ cevents' = Append(cevents, "open")
    /\ cpc' = "lookup"
    /\ UNCHANGED <<ccache, cquery, cparam, cexc, cresult, cbefore, data,
                   history, dropped, ccalls>>
    /\ UNCHANGED otherThanCache

\* sqlite3.connect raises: cache_query's wrapper is never entered.
CacheConnectFail ==
    /\ cpc = "connect"
    /\ cexc' = Failure("OperationalError", "connect")
    /\ cpc' = "finally"
    /\ UNCHANGED <<ccache, cquery, cparam, cconn, cresult, cevents, cbefore,
                   data, history, dropped, ccalls>>
    /\ UNCHANGED otherThanCache

\* Mutant: func is called before the cache is looked at.
CacheHit_Executes ==
    /\ cpc = "lookup"
    /\ Key \in DOMAIN ccache
    /\ cevents' = cevents \o <<"execute", "hit">>
    /\ cresult' = ccache[Key]
    /\ cpc' = "finally"
    /\ UNCHANGED <<ccache, cquery, cparam, cconn, cexc, cbefore, data,
                   history, dropped, ccalls>>
    /\ UNCHANGED otherThanCache

\* if cache_key in query_cache: return query_cache[cache_key]
CacheHit ==
    /\ cpc = "lookup"
    /\ Key \in DOMAIN ccache
    /\ cevents' = Append(cevents, "hit")
    /\ cresult' = ccache[Key]
    /\ cpc' = "finally"
    /\ UNCHANGED <<ccache, cquery, cparam, cconn, cexc, cbefore, data,
                   history, dropped, ccalls>>
    /\ UNCHANGED otherThanCache

\* else: func(conn, query, ...) is called.
CacheMiss ==
    /\ cpc = "lookup"
    /\ Key \notin DOMAIN ccache
    /\ cevents' = Append(cevents, "miss")
    /\ cpc' = "compute"
    /\ UNCHANGED <<ccache, cquery, cparam, cconn, cexc, cresult, cbefore,
                   data, history, dropped, ccalls>>
    /\ UNCHANGED otherThanCache

\* cursor.execute(query ...); return cursor.fetchall(): result is bound.
CacheExecute ==
    /\ cpc = "compute"
    /\ cevents' = Append(cevents, "execute")
    /\ cresult' = Compute(cquery, cparam, data)
    /\ cpc' = "store"
    /\ UNCHANGED <<ccache, cquery, cparam, cconn, cexc, cbefore, data,
                   history, dropped, ccalls>>
    /\ UNCHANGED otherThanCache

\* Mutant: a failed compute leaves None in the cache under the key.
CacheExecuteFail_CachesNone ==
    /\ cpc = "compute"
    /\ cevents' = Append(cevents, "execute")
    /\ cexc' = Failure("OperationalError", "compute")
    /\ ccache' = Put(ccache, Key, NoneResult)
    /\ cpc' = "finally"
    /\ UNCHANGED <<cquery, cparam, cconn, cresult, cbefore, data,
                   history, dropped, ccalls>>
    /\ UNCHANGED otherThanCache

\* cursor.execute raises: the exception leaves cache_query's wrapper before
\* the assignment to query_cache.
CacheExecuteFail ==
    /\ cpc = "compute"
    /\ cevents' = Append(cevents, "execute")
    /\ cexc' = Failure("OperationalError", "compute")
    /\ cpc' = "finally"
    /\ UNCHANGED <<ccache, cquery, cparam, cconn, cresult, cbefore, data,
                   history, dropped, ccalls>>
    /\ UNCHANGED otherThanCache

\* Mutant: the result is returned without being cached.
CacheStore_Skipped ==
    /\ cpc = "store"
    /\ cevents' = Append(cevents, "store")
    /\ cpc' = "finally"
    /\ UNCHANGED <<ccache, cquery, cparam, cconn, cexc, cresult, cbefore, data,
                   history, dropped, ccalls>>
    /\ UNCHANGED otherThanCache

\* query_cache[cache_key] = result; return result
CacheStore ==
    /\ cpc = "store"
    /\ ccache' = Put(ccache, Key, cresult)
    /\ cevents' = Append(cevents, "store")
    /\ cpc' = "finally"
    /\ UNCHANGED <<cquery, cparam, cconn, cexc, cresult, cbefore, data,
                   history, dropped, ccalls>>
    /\ UNCHANGED otherThanCache

\* finally: if conn: conn.close(); control is back with the caller.
CacheFinally ==
    /\ cpc = "finally"
    /\ IF cconn = "open"
          THEN /\ cconn' = "closed"
               /\ cevents' = Append(cevents, "close")
               /\ history' = Append(history, CallRecord)
          ELSE UNCHANGED <<cconn, cevents, history>>
    /\ cpc' = "done"
    /\ UNCHANGED <<ccache, cquery, cparam, cexc, cresult, cbefore, data,
                   dropped, ccalls>>
    /\ UNCHANGED otherThanCache

\* Mutant: the clear that leaves the entries in place.
CacheClear_KeepsEntries ==
    /\ cpc \in {"idle", "done"}
    /\ dropped' = DOMAIN ccache
    /\ history' = <<>>
    /\ cpc' = "idle"
    /\ cconn' = "none"
    /\ cexc' = NoExc
    /\ cresult' = NoResult
    /\ cevents' = <<>>
    /\ UNCHANGED <<ccache, cquery, cparam, cbefore, data, ccalls>>
    /\ UNCHANGED otherThanCache

\* query_cache.clear(), between two calls: the caller is done with the
\* previous call and its result.
CacheClear ==
    /\ cpc \in {"idle", "done"}
    /\ ccache' = EmptyCache
    /\ dropped' = DOMAIN ccache
    /\ history' = <<>>
    /\ cpc' = "idle"
    /\ cconn' = "none"
    /\ cexc' = NoExc
    /\ cresult' = NoResult
    /\ cevents' = <<>>
    /\ UNCHANGED <<cquery, cparam, cbefore, data, ccalls>>
    /\ UNCHANGED otherThanCache

\* Mutant: a change of users.db empties the cache.
DataChange_Invalidates ==
    /\ data < MaxVersion
    /\ data' = data + 1
    /\ ccache' = EmptyCache
    /\ UNCHANGED <<cpc, cquery, cparam, cconn, cexc, cresult, cevents,
                   cbefore, history, dropped, ccalls>>
    /\ UNCHANGED otherThanCache

\* Another program commits a change to users.db.
DataChange ==
    /\ data < MaxVersion
    /\ data' = data + 1
    /\ UNCHANGED <<ccache, cpc, cquery, cparam, cconn, cexc, cresult, cevents,
                   cbefore, history, dropped, ccalls>>
    /\ UNCHANGED otherThanCache

CacheNext ==
    \/ CacheCall
    \/ CacheConnect
    \/ CacheConnectFail
    \/ CacheHit
    \/ CacheMiss
    \/ CacheExecute
    \/ CacheExecuteFail
    \/ CacheStore
    \/ CacheFinally
    \/ CacheClear
    \/ DataChange

SpecCache == Init /\ [][CacheNext]_vars

\* ------------------------------------------------ cache_query: vocabulary
CDone == cpc = "done"
\* the current call went through cache_query's wrapper and is over
CFinished == cpc = "done" /\ cconn = "closed"
\* the calls of cache_query's wrapper since the last clear, before this one
Earlier == IF CFinished THEN SubSeq(history, 1, Len(history) - 1) ELSE history
SameSignature(a, b) == a.query = b.query /\ a.param = b.param
Returning(r) == r.outcome \in {"hit", "computed"}

\* ------------------------------------------------------------------ C12
\* C12 (as stated): any two cached calls with the same signature and no clear
\* between them invoke compute at most once in total, and the second returns
\* the first one's result.
C12_Original ==
    \A a, b \in 1..Len(history) :
        (a < b /\ SameSignature(history[a], history[b])) =>
            /\ history[a].computes + history[b].computes <= 1
            /\ history[b].result = history[a].result

\* C12 (amended): of two cached calls with the same signature and no clear
\* between them, the first of which returned a result, compute is invoked at
\* most once in total (never by the second), and the second returns a result
\* equal to the first one's.
C12_SecondCallHits ==
    \A a, b \in 1..Len(history) :
        (a < b /\ SameSignature(history[a], history[b]) /\ Returning(history[a])) =>
            /\ history[a].computes + history[b].computes <= 1
            /\ history[b].computes = 0
            /\ history[b].outcome = "hit"
            /\ history[b].result = history[a].result

C12_Witness ==
    /\ Len(history) = 2 /\ CFinished
    /\ SameSignature(history[1], history[2])
    /\ history[1].outcome = "computed" /\ history[1].result.version = 0
    /\ history[2].outcome = "hit" /\ history[2].result = history[1].result
    /\ data = 1

\* ------------------------------------------------------------------ C13
\* C13 (as stated): a call that hits the cache acquires and releases no
\* connection and executes no query.
C13_Original ==
    (CDone /\ CHas("hit")) =>
        (~CHas("open") /\ ~CHas("close") /\ ~CHas("execute"))

\* C13 (amended): a call that hits the cache executes no query, invokes no
\* compute and leaves the cache as it was, returning the stored result; it
\* still acquires one connection before the lookup and releases it after,
\* because with_db_connection wraps cache_query.
C13_HitExecutesNothing ==
    CHas("hit") =>
        /\ ~CHas("execute") /\ ~CHas("miss") /\ ~CHas("store")
        /\ ccache = cbefore
        /\ Key \in DOMAIN cbefore /\ cresult = cbefore[Key]
        /\ cexc = NoExc
        /\ CBefore("open", "hit")
        /\ CDone => cevents = <<"open", "hit", "close">>

C13_Witness ==
    CDone /\ cevents = <<"open", "hit", "close">> /\ cresult.version = 0 /\ data = 1

\* ------------------------------------------------------------------ C14
\* C14 (as stated): the value returned on a hit was computed for the same
\* query text and the same bound parameter value.
C14_Original ==
    CHas("hit") => (cresult.query = cquery /\ cresult.param = cparam)

\* C14 (amended): the value returned on a hit was computed for the same query
\* text, whatever the bound parameter values were: the key is the query text
\* alone, so calls with the same text and different parameter values share
\* one entry, and a call finds the entry of any earlier returning call with
\* its text.
C14_KeyIsQueryText ==
    /\ CHas("hit") => cresult.query = cquery
    /\ \A k \in DOMAIN ccache : ccache[k].query = k[1]
    /\ (cpc \in {"compute", "store", "finally", "done"} /\ cconn # "none") =>
          \A k \in 1..Len(Earlier) :
              (Earlier[k].query = cquery /\ Returning(Earlier[k])) =>
                  (CHas("hit") /\ cresult = Earlier[k].result)

C14_Witness ==
    /\ CDone /\ CHas("hit") /\ cquery = "byid" /\ cparam = 2
    /\ cresult.query = "byid" /\ cresult.param = 1

\* ------------------------------------------------------------------ C15
\* C15: the first call of cache_query's wrapper after a clear invokes compute
\* whatever was cached before, and whatever a hit returns was obtained by a
\* call made since the last clear.
C15_NoHitSurvivesClear ==
    /\ history # <<>> =>
          (history[1].outcome # "hit" /\ history[1].computes = 1)
    /\ (history = <<>> /\ cpc \in {"idle", "connect", "lookup"}) =>
          ccache = EmptyCache
    /\ CHas("hit") =>
          \E k \in 1..Len(Earlier) :
              /\ Earlier[k].outcome = "computed"
              /\ Earlier[k].result = cresult

C15_Witness ==
    /\ CFinished /\ Len(history) = 1 /\ history[1].outcome = "computed"
    /\ Key \in dropped /\ cevents = <<"open", "miss", "execute", "store", "close">>

\* ------------------------------------------------------------------ C16
\* C16: when compute fails on a miss, the caller observes that failure, the
\* cache is exactly as it was before the call, and the next call with the same
\* signature misses and invokes compute again.
C16_FailedComputeNotCached ==
    /\ cexc.origin = "compute" =>
          /\ cpc \in {"finally", "done"}
          /\ cexc = Failure("OperationalError", "compute")
          /\ cresult = NoResult
          /\ ccache = cbefore
          /\ Key \notin DOMAIN ccache
    /\ (cpc \in {"compute", "store", "finally", "done"} /\ cconn # "none"
            /\ Earlier # <<>> /\ Last(Earlier).outcome = "failed"
            /\ Last(Earlier).query = cquery /\ Last(Earlier).param = cparam) =>
          /\ CHas("miss") /\ ~CHas("hit")
          /\ CDone => Count(cevents, "execute") = 1

C16_Witness ==
    /\ CFinished /\ Len(history) = 2
    /\ history[1].outcome = "failed" /\ history[2].outcome = "computed"
    /\ SameSignature(history[1], history[2])

\* =========================================================================
\* 4-cache_query.py under concurrent callers: two threads call the cached
\* functions; query_cache is the module-level dict they share.  Each step is
\* one operation on the dict or one call of the store driver, so the steps of
\* the two threads interleave as the interpreter lets them.  Nothing clears
\* the cache while the threads run.
\* =========================================================================
TKey(t) == CacheKey(tquery[t], tparam[t])

ThreadCall(t) ==
    /\ tpc[t] \in {"idle", "done"}
    /\ tcalls[t] < MaxThreadCalls
    /\ tcalls' = [tcalls EXCEPT ![t] = @ + 1]
    /\ \E q \in Queries : \E p \in ParamsOf(q) :
          /\ tquery' = [tquery EXCEPT ![t] = q]
          /\ tparam' = [tparam EXCEPT ![t] = p]
    /\ tpc' = [tpc EXCEPT ![t] = "connect"]
    /\ tconn' = [tconn EXCEPT ![t] = "none"]
    /\ tpath' = [tpath EXCEPT ![t] = "none"]
    /\ tlocal' = [tlocal EXCEPT ![t] = NoResult]
    /\ tresult' = [tresult EXCEPT ![t] = NoResult]
    /\ texc' = [texc EXCEPT ![t] = NoExc]
    /\ UNCHANGED <<tcache, tdata, tlog, raced>>
    /\ UNCHANGED otherThanThreads

\* conn = sqlite3.connect('users.db'): a connection of the thread's own.
ThreadConnect(t) ==
    /\ tpc[t] = "connect"
    /\ tconn' = [tconn EXCEPT ![t] = "open"]
    /\ tpc' = [tpc EXCEPT ![t] = "check"]
    /\ UNCHANGED <<tcache, tdata, tquery, tparam, tpath, tlocal, tresult,
                   texc, tlog, raced, tcalls>>
    /\ UNCHANGED otherThanThreads

ThreadConnectFail(t) ==
    /\ tpc[t] = "connect"
    /\ texc' = [texc EXCEPT ![t] = Failure("OperationalError", "connect")]
    /\ tpc' = [tpc EXCEPT ![t] = "finally"]
    /\ UNCHANGED <<tcache, tdata, tquery, tparam, tconn, tpath, tlocal,
                   tresult, tlog, raced, tcalls>>
    /\ UNCHANGED otherThanThreads

\* if cache_key in query_cache: (true)
ThreadCheckHit(t) ==
    /\ tpc[t] = "check"
    /\ TKey(t) \in DOMAIN tcache
    /\ tpath' = [tpath EXCEPT ![t] = "hit"]
    /\ tpc' = [tpc EXCEPT ![t] = "read"]
    /\ UNCHANGED <<tcache, tdata, tquery, tparam, tconn, tlocal, tresult,
                   texc, tlog, raced, tcalls>>
    /\ UNCHANGED otherThanThreads

\* if cache_key in query_cache: (false)
ThreadCheckMiss(t) ==
    /\ tpc[t] = "check"
    /\ TKey(t) \notin DOMAIN tcache
    /\ tpath' = [tpath EXCEPT ![t] = "miss"]
    /\ tpc' = [tpc EXCEPT ![t] = "compute"]
    /\ raced' = (raced \/ (/\ tpc[Other(t)] \in {"compute", "store"}
                           /\ tquery[Other(t)] = tquery[t]
                           /\ tparam[Other(t)] = tparam[t]))
    /\ UNCHANGED <<tcache, tdata, tquery, tparam, tconn, tlocal, tresult,
                   texc, tlog, tcalls>>
    /\ UNCHANGED otherThanThreads

\* return query_cache[cache_key]: a KeyError if the entry is gone.
ThreadRead(t) ==
    /\ tpc[t] = "read"
    /\ IF TKey(t) \in DOMAIN tcache
          THEN /\ tresult' = [tresult EXCEPT ![t] = tcache[TKey(t)]]
               /\ UNCHANGED texc
          ELSE /\ texc' = [texc EXCEPT ![t] = Failure("KeyError", "lookup")]
               /\ UNCHANGED tresult
    /\ tpc' = [tpc EXCEPT ![t] = "finally"]
    /\ UNCHANGED <<tcache, tdata, tquery, tparam, tconn, tpath, tlocal,
                   tlog, raced, tcalls>>
    /\ UNCHANGED otherThanThreads

\* result = func(conn, query, ...) on the content as it is now.
ThreadExecute(t) ==
    /\ tpc[t] = "compute"
    /\ tlocal' = [tlocal EXCEPT ![t] = Compute(tquery[t], tparam[t], tdata)]
    /\ tpc' = [tpc EXCEPT ![t] = "store"]
    /\ UNCHANGED <<tcache, tdata, tquery, tparam, tconn, tpath, tresult,
                   texc, tlog, raced, tcalls>>
    /\ UNCHANGED otherThanThreads

ThreadExecuteFail(t) ==
    /\ tpc[t] = "compute"
    /\ texc' = [texc EXCEPT ![t] = Failure("OperationalError", "compute")]
    /\ tpc' = [tpc EXCEPT ![t] = "finally"]
    /\ UNCHANGED <<tcache, tdata, tquery, tparam, tconn, tpath, tlocal,
                   tresult, tlog, raced, tcalls>>
    /\ UNCHANGED otherThanThreads

\* Mutant: query_cache.setdefault(cache_key, result), the first write stays.
StoreInto_FirstWins(cache, k, v) ==
    IF k \in DOMAIN cache THEN cache ELSE Put(cache, k, v)

\* query_cache[cache_key] = result
StoreInto(cache, k, v) == Put(cache, k, v)

\* query_cache[cache_key] = result; return result
ThreadStore(t) ==
    /\ tpc[t] = "store"
    /\ tcache' = StoreInto(tcache, TKey(t), tlocal[t])
    /\ tlog' = Append(tlog, [thread |-> t, key |-> TKey(t), value |-> tlocal[t]])
    /\ tresult' = [tresult EXCEPT ![t] = tlocal[t]]
    /\ tpc' = [tpc EXCEPT ![t] = "finally"]
    /\ UNCHANGED <<tdata, tquery, tparam, tconn, tpath, tlocal, texc, raced,
                   tcalls>>
    /\ UNCHANGED otherThanThreads

\* finally: if conn: conn.close()
ThreadFinally(t) ==
    /\ tpc[t] = "finally"
    /\ tconn' = [tconn EXCEPT ![t] = IF @ = "open" THEN "closed" ELSE @]
    /\ tpc' = [tpc EXCEPT ![t] = "done"]
    /\ UNCHANGED <<tcache, tdata, tquery, tparam, tpath, tlocal, tresult,
                   texc, tlog, raced, tcalls>>
    /\ UNCHANGED otherThanThreads

\* Another program commits a change to users.db.
ThreadDataChange ==
    /\ tdata < MaxVersion
    /\ tdata' = tdata + 1
    /\ UNCHANGED <<tcache, tpc, tquery, tparam, tconn, tpath, tlocal, tresult,
                   texc, tlog, raced, tcalls>>
    /\ UNCHANGED otherThanThreads

ThreadsNext ==
    \/ \E t \in Threads : ThreadCall(t)
    \/ \E t \in Threads : ThreadConnect(t)
    \/ \E t \in Threads : ThreadConnectFail(t)
    \/ \E t \in Threads : ThreadCheckHit(t)
    \/ \E t \in Threads : ThreadCheckMiss(t)
    \/ \E t \in Threads : ThreadRead(t)
    \/ \E t \in Threads : ThreadExecute(t)
    \/ \E t \in Threads : ThreadExecuteFail(t)
    \/ \E t \in Threads : ThreadStore(t)
    \/ \E t \in Threads : ThreadFinally(t)
    \/ ThreadDataChange

SpecThreads == Init /\ [][ThreadsNext]_vars

\* ------------------------------------------------------------------ C17
\* the last assignment to query_cache under key k
LastWrite(k) ==
    tlog[Max({n \in 1..Len(tlog) : tlog[n].key = k})]

BothMissedSame ==
    /\ \A t \in Threads : tpc[t] = "done" /\ tpath[t] = "miss" /\ texc[t] = NoExc
    /\ tquery[1] = tquery[2] /\ tparam[1] = tparam[2]

\* C17 (as stated): the cache never hands a caller a foreign value: what a
\* caller gets, computed or found, was computed for its own query text and
\* its own parameter value.
C17_Original ==
    \A t \in Threads :
        (tpc[t] = "done" /\ texc[t] = NoExc) =>
            (tresult[t].query = tquery[t] /\ tresult[t].param = tparam[t])

\* C17 (amended): when two callers miss concurrently on the same signature
\* both invoke compute; at every moment the entry under a key is the value
\* assigned to it last, a complete result of a successful compute for that
\* query text; a caller that missed returns the result of its own compute for
\* its own signature, a caller that hit returns what was stored under its
\* query text, whatever parameter value it was computed for, and no lookup
\* finds its entry gone.
C17_LastWriteWins ==
    /\ \A k \in DOMAIN tcache :
          /\ \E n \in 1..Len(tlog) : tlog[n].key = k
          /\ tcache[k] = LastWrite(k).value
          /\ tcache[k] \in [query : {k[1]}, param : ParamsOf(k[1]), version : 0..tdata]
    /\ \A n \in 1..Len(tlog) : tlog[n].key \in DOMAIN tcache
    /\ \A t \in Threads :
          /\ texc[t].kind # "KeyError"
          /\ (tpc[t] = "done" /\ tpath[t] = "miss" /\ texc[t] = NoExc) =>
                /\ tresult[t] = tlocal[t]
                /\ tresult[t].query = tquery[t] /\ tresult[t].param = tparam[t]
                /\ \E n \in 1..Len(tlog) :
                      tlog[n] = [thread |-> t, key |-> TKey(t), value |-> tresult[t]]
          /\ (tpc[t] = "done" /\ tpath[t] = "hit") =>
                /\ tresult[t].query = tquery[t]
                /\ \E n \in 1..Len(tlog) :
                      tlog[n].key = TKey(t) /\ tlog[n].value = tresult[t]
    /\ (raced /\ BothMissedSame /\ \A t \in Threads : tcalls[t] = 1) =>
          /\ Len(tlog) = 2
          /\ tcache[TKey(1)] = tlog[2].value
          /\ tcache[TKey(1)] = tresult[tlog[2].thread]

C17_Witness ==
    /\ raced /\ BothMissedSame
    /\ Len(tlog) = 2 /\ tlog[1].thread = 2 /\ tlog[2].thread = 1
    /\ tresult[1].version = 0 /\ tresult[2].version = 1
    /\ tcache[TKey(1)] = tresult[1]

\* =========================================================================
\* python-generators-0x00/4-stream_ages.py: lazy_paginate(page_size) is a
\* generator; its consumer resumes it with next().  A generator is "new"
\* before lazy_paginate is called, "created" before its first next(), then
\* "fetch" and "execute" inside paginate_users, "test" at `if not page`,
\* "yielded" while suspended at `yield page`, "ended" after the break and
\* "abandoned" when the consumer drops it without exhausting it.
\* =========================================================================
Min(a, b) == IF a <= b THEN a ELSE b

\* Mutant: OFFSET counts from the last row already fetched.
Limit_Overlap(t, p, off) ==
    SubSeq(t, IF off = 0 THEN 1 ELSE off, Min(off + p, Len(t)))

\* SELECT * FROM user_data LIMIT p OFFSET off
Limit(t, p, off) == SubSeq(t, off + 1, Min(off + p, Len(t)))

\* Mutant: the offset counts pages, not rows.
NextOffset_PlusOne(off, p) == off + 1

\* offset += page_size
NextOffset(off, p) == off + p

\* Mutant: a page shorter than page_size ends the sequence.
Exhausted_ShortPage(g) == Len(page[g]) < page_size[g]

\* if not page
Exhausted(g) == page[g] = <<>>

\* lazy_paginate(page_size) has been called for g
Created(g) == gpc[g] # "new"

\* the rows of s without the one at index n
Without(s, n) == [k \in 1..(Len(s) - 1) |-> IF k < n THEN s[k] ELSE s[k + 1]]

\* the rows of s, as a set
Rows(s) == {s[k] : k \in DOMAIN s}

\* s with x put at index n
InsertAt(s, n, x) ==
    [k \in 1..(Len(s) + 1) |->
        IF k < n THEN s[k] ELSE IF k = n THEN x ELSE s[k - 1]]

\* how many rows of the table the fetches of g have covered so far
Reached(g) ==
    IF fetches[g] = <<>> THEN 0
    ELSE Last(fetches[g]).offset + Len(page[g])

\* INSERT INTO user_data: seeding before the runs, another writer during
\* them.  The statement has no ORDER BY: the new row comes at position n of
\* what SELECT * returns (user_id, a UUID, is the primary key).
RowInsert(n) ==
    /\ inserted < MaxRows
    /\ n \in 1..(Len(table) + 1)
    /\ inserted' = inserted + 1
    /\ table' = InsertAt(table, n, inserted + 1)
    /\ changed' = [g \in Pagers |-> changed[g] \/ Created(g)]
    /\ disturbed' = [g \in Pagers |-> disturbed[g] \/ n <= Reached(g)]
    /\ UNCHANGED <<deleted, active, gpc, page_size, offset, page, connection,
                   yielded, fetches, requests, present>>
    /\ UNCHANGED otherThanPager

\* DELETE FROM user_data WHERE ...: one row goes.
RowDelete ==
    /\ deleted < MaxDeletes
    /\ deleted' = deleted + 1
    /\ \E n \in 1..Len(table) :
          /\ table' = Without(table, n)
          /\ disturbed' = [g \in Pagers |-> disturbed[g] \/ n <= Reached(g)]
    /\ changed' = [g \in Pagers |-> changed[g] \/ Created(g)]
    /\ UNCHANGED <<inserted, active, gpc, page_size, offset, page, connection,
                   yielded, fetches, requests, present>>
    /\ UNCHANGED otherThanPager

\* gen = lazy_paginate(page_size): nothing of its body runs yet.
PgCreate(g) ==
    /\ g \in active
    /\ gpc[g] = "new"
    /\ \E p \in 0..MaxPageSize : page_size' = [page_size EXCEPT ![g] = p]
    /\ gpc' = [gpc EXCEPT ![g] = "created"]
    /\ UNCHANGED <<table, inserted, deleted, active, offset, page, connection,
                   yielded, fetches, requests, changed,
                   present, disturbed>>
    /\ UNCHANGED otherThanPager

\* Mutant: `offset` is a module-level variable that every run assigns.
PgNext_GlobalOffset(g) ==
    /\ gpc[g] \in {"created", "yielded"}
    /\ requests' = [requests EXCEPT ![g] = @ + 1]
    /\ offset' = [h \in Pagers |->
                     IF gpc[g] = "created" THEN 0
                     ELSE NextOffset(offset[g], page_size[g])]
    /\ connection' = [connection EXCEPT ![g] = "none"]
    /\ gpc' = [gpc EXCEPT ![g] = "fetch"]
    /\ UNCHANGED <<table, inserted, deleted, active, page_size, page, yielded,
                   fetches, changed,
                   present, disturbed>>
    /\ UNCHANGED otherThanPager

\* next(gen): the first one runs `offset = 0` and enters the loop, a later
\* one resumes after the yield with `offset += page_size`.
PgNext(g) ==
    /\ gpc[g] \in {"created", "yielded"}
    /\ requests' = [requests EXCEPT ![g] = @ + 1]
    /\ offset' = [offset EXCEPT ![g] =
                     IF gpc[g] = "created" THEN 0
                     ELSE NextOffset(@, page_size[g])]
    /\ connection' = [connection EXCEPT ![g] = "none"]
    /\ gpc' = [gpc EXCEPT ![g] = "fetch"]
    /\ UNCHANGED <<table, inserted, deleted, active, page_size, page, yielded,
                   fetches, changed,
                   present, disturbed>>
    /\ UNCHANGED otherThanPager

\* The consumer leaves its loop and drops the generator.
PgStop(g) ==
    /\ gpc[g] \in {"created", "yielded"}
    /\ gpc' = [gpc EXCEPT ![g] = "abandoned"]
    /\ UNCHANGED <<table, inserted, deleted, active, page_size, offset, page,
                   connection, yielded, fetches, requests, changed,
                   present, disturbed>>
    /\ UNCHANGED otherThanPager

\* paginate_users: connection = connect_to_prodev() succeeds.
PgConnect(g) ==
    /\ gpc[g] = "fetch"
    /\ connection' = [connection EXCEPT ![g] = "open"]
    /\ gpc' = [gpc EXCEPT ![g] = "execute"]
    /\ UNCHANGED <<table, inserted, deleted, active, page_size, offset, page,
                   yielded, fetches, requests, changed,
                   present, disturbed>>
    /\ UNCHANGED otherThanPager

\* paginate_users: connect_to_prodev() returns None; return [].
PgConnectFail(g) ==
    /\ gpc[g] = "fetch"
    /\ page' = [page EXCEPT ![g] = <<>>]
    /\ fetches' = [fetches EXCEPT ![g] =
                      Append(@, [offset |-> offset[g], ok |-> FALSE])]
    /\ gpc' = [gpc EXCEPT ![g] = "test"]
    /\ UNCHANGED <<table, inserted, deleted, active, page_size, offset,
                   connection, yielded, requests, changed,
                   present, disturbed>>
    /\ UNCHANGED otherThanPager

\* Mutant: the finally clause does not close the connection.
PgExecute_LeavesOpen(g) ==
    /\ gpc[g] = "execute"
    /\ page' = [page EXCEPT ![g] = Limit(table, page_size[g], offset[g])]
    /\ fetches' = [fetches EXCEPT ![g] =
                      Append(@, [offset |-> offset[g], ok |-> TRUE])]
    /\ present' = [present EXCEPT ![g] =
                      IF fetches[g] = <<>> THEN Rows(table)
                      ELSE @ \cap Rows(table)]
    /\ gpc' = [gpc EXCEPT ![g] = "test"]
    /\ UNCHANGED <<table, inserted, deleted, active, page_size, offset,
                   connection, yielded, requests, changed,
                   disturbed>>
    /\ UNCHANGED otherThanPager

\* paginate_users: execute and fetchall succeed; finally closes; return rows.
PgExecute(g) ==
    /\ gpc[g] = "execute"
    /\ page' = [page EXCEPT ![g] = Limit(table, page_size[g], offset[g])]
    /\ fetches' = [fetches EXCEPT ![g] =
                      Append(@, [offset |-> offset[g], ok |-> TRUE])]
    /\ connection' = [connection EXCEPT ![g] = "closed"]
    /\ present' = [present EXCEPT ![g] =
                      IF fetches[g] = <<>> THEN Rows(table)
                      ELSE @ \cap Rows(table)]
    /\ gpc' = [gpc EXCEPT ![g] = "test"]
    /\ UNCHANGED <<table, inserted, deleted, active, page_size, offset,
                   yielded, requests, changed,
                   disturbed>>
    /\ UNCHANGED otherThanPager

\* Mutant: paginate_users has no except clauses; the error leaves next().
PgExecuteFail_Propagates(g) ==
    /\ gpc[g] = "execute"
    /\ fetches' = [fetches EXCEPT ![g] =
                      Append(@, [offset |-> offset[g], ok |-> FALSE])]
    /\ connection' = [connection EXCEPT ![g] = "closed"]
    /\ gpc' = [gpc EXCEPT ![g] = "raised"]
    /\ UNCHANGED <<table, inserted, deleted, active, page_size, offset, page,
                   yielded, requests, changed,
                   present, disturbed>>
    /\ UNCHANGED otherThanPager

\* paginate_users: execute or fetchall raises; the except clauses print;
\* finally closes; return rows, still [].
PgExecuteFail(g) ==
    /\ gpc[g] = "execute"
    /\ page' = [page EXCEPT ![g] = <<>>]
    /\ fetches' = [fetches EXCEPT ![g] =
                      Append(@, [offset |-> offset[g], ok |-> FALSE])]
    /\ connection' = [connection EXCEPT ![g] = "closed"]
    /\ gpc' = [gpc EXCEPT ![g] = "test"]
    /\ UNCHANGED <<table, inserted, deleted, active, page_size, offset,
                   yielded, requests, changed,
                   present, disturbed>>
    /\ UNCHANGED otherThanPager

\* Mutant: after handing over a page the generator goes on to the next fetch
\* by itself.
PgYield_Prefetch(g) ==
    /\ gpc[g] = "test"
    /\ ~Exhausted(g)
    /\ yielded' = [yielded EXCEPT ![g] = Append(@, page[g])]
    /\ offset' = [offset EXCEPT ![g] = NextOffset(@, page_size[g])]
    /\ gpc' = [gpc EXCEPT ![g] = "fetch"]
    /\ UNCHANGED <<table, inserted, deleted, active, page_size, page,
                   connection, fetches, requests, changed,
                   present, disturbed>>
    /\ UNCHANGED otherThanPager

\* yield page: the generator is suspended until the next next().
PgYield(g) ==
    /\ gpc[g] = "test"
    /\ ~Exhausted(g)
    /\ yielded' = [yielded EXCEPT ![g] = Append(@, page[g])]
    /\ gpc' = [gpc EXCEPT ![g] = "yielded"]
    /\ UNCHANGED <<table, inserted, deleted, active, page_size, offset, page,
                   connection, fetches, requests, changed,
                   present, disturbed>>
    /\ UNCHANGED otherThanPager

\* if not page: break; the generator returns, next() raises StopIteration.
PgEnd(g) ==
    /\ gpc[g] = "test"
    /\ Exhausted(g)
    /\ gpc' = [gpc EXCEPT ![g] = "ended"]
    /\ UNCHANGED <<table, inserted, deleted, active, page_size, offset, page,
                   connection, yielded, fetches, requests, changed,
                   present, disturbed>>
    /\ UNCHANGED otherThanPager

PagerNext ==
    \/ \E n \in 1..(Len(table) + 1) : RowInsert(n)
    \/ RowDelete
    \/ \E g \in Pagers : PgCreate(g)
    \/ \E g \in Pagers : PgNext(g)
    \/ \E g \in Pagers : PgStop(g)
    \/ \E g \in Pagers : PgConnect(g)
    \/ \E g \in Pagers : PgConnectFail(g)
    \/ \E g \in Pagers : PgExecute(g)
    \/ \E g \in Pagers : PgExecuteFail(g)
    \/ \E g \in Pagers : PgYield(g)
    \/ \E g \in Pagers : PgEnd(g)

SpecPager == Init /\ [][PagerNext]_vars

\* The steps of two runs over a table that only grows, at its end.
TwoRunsNext ==
    \/ RowInsert(Len(table) + 1)
    \/ \E g \in Pagers : PgCreate(g)
    \/ \E g \in Pagers : PgNext(g)
    \/ \E g \in Pagers : PgStop(g)
    \/ \E g \in Pagers : PgConnect(g)
    \/ \E g \in Pagers : PgConnectFail(g)
    \/ \E g \in Pagers : PgExecute(g)
    \/ \E g \in Pagers : PgExecuteFail(g)
    \/ \E g \in Pagers : PgYield(g)
    \/ \E g \in Pagers : PgEnd(g)

\* two runs, their steps interleaved in every way (one after the other too)
SpecTwoRuns == InitTwoRuns /\ [][TwoRunsNext]_vars

\* ---------------------------------------------------- pager vocabulary
Ceil(m, p) == (m + p - 1) \div p

RECURSIVE Flatten(_)
\* the rows of a sequence of pages, in yield order
Flatten(pages) ==
    IF pages = <<>> THEN <<>> ELSE Head(pages) \o Flatten(Tail(pages))

AllFetchesOk(g) == \A k \in 1..Len(fetches[g]) : fetches[g][k].ok

\* every page has rows, and every page but the last has page_size of them
WellFormedPages(g) ==
    \A k \in 1..Len(yielded[g]) :
        /\ yielded[g][k] # <<>>
        /\ Len(yielded[g][k]) <= page_size[g]
        /\ k < Len(yielded[g]) => Len(yielded[g][k]) = page_size[g]

\* ------------------------------------------------------------------ C18
\* C18 (as stated): over a table of M rows that does not change, with
\* page_size p > 0, a run that has ended has yielded exactly ceil(M/p) pages,
\* none empty, all but the last of p rows, whose rows in yield order are the
\* table.
C18_Original ==
    \A g \in Pagers :
        (gpc[g] = "ended" /\ page_size[g] > 0 /\ ~changed[g]) =>
            /\ Len(yielded[g]) = Ceil(Len(table), page_size[g])
            /\ WellFormedPages(g)
            /\ Flatten(yielded[g]) = table

\* C18 (amended): the same when no fetch of the run failed; in any case, over
\* an unchanged table the pages yielded so far are non-empty, all but the
\* last of p rows, and their rows are the first rows of the table in order;
\* a run ended by a failed fetch has yielded only those first pages.
C18_PagesPartitionTable ==
    \A g \in Pagers :
        (page_size[g] > 0 /\ ~changed[g]) =>
            /\ WellFormedPages(g)
            /\ Len(yielded[g]) <= Ceil(Len(table), page_size[g])
            /\ Flatten(yielded[g]) = SubSeq(table, 1, Len(Flatten(yielded[g])))
            /\ (gpc[g] = "ended" /\ AllFetchesOk(g)) =>
                  /\ Len(yielded[g]) = Ceil(Len(table), page_size[g])
                  /\ Flatten(yielded[g]) = table
            /\ (gpc[g] = "ended" /\ ~AllFetchesOk(g)) =>
                  Len(Flatten(yielded[g])) = Min(offset[g], Len(table))

C18_Witness ==
    /\ gpc[1] = "ended" /\ page_size[1] = 2 /\ ~changed[1] /\ AllFetchesOk(1)
    /\ table = <<1, 2, 3>>
    /\ yielded[1] = << <<1, 2>>, <<3>> >>

\* ------------------------------------------------------------------ C19
\* C19 (as stated): a run ends only on an empty page, a yielded page is
\* followed by one more fetch, and a run that has ended over an unchanged
\* table of M rows has made exactly ceil(M/p)+1 fetches, at offsets
\* 0, p, 2p, ...
C19_Original ==
    \A g \in Pagers :
        /\ gpc[g] = "ended" => page[g] = <<>>
        /\ (gpc[g] = "ended" /\ page_size[g] > 0 /\ ~changed[g]) =>
              /\ Len(fetches[g]) = Ceil(Len(table), page_size[g]) + 1
              /\ \A k \in 1..Len(fetches[g]) :
                    fetches[g][k].offset = (k - 1) * page_size[g]

\* C19 (amended): a run ends only on an empty page: one fetch follows every
\* yielded page, also a short one, before the run can end, and the fetches
\* are at offsets 0, p, 2p, ...; a run that has ended over an unchanged table
\* of M rows has made exactly ceil(M/p)+1 fetches when none of them failed,
\* and at most that many when its last one failed.
C19_EndsOnEmptyPage ==
    \A g \in Pagers :
        /\ gpc[g] = "ended" =>
              /\ page[g] = <<>>
              /\ Len(fetches[g]) = Len(yielded[g]) + 1
        /\ gpc[g] \in {"yielded", "abandoned"} => Len(fetches[g]) = Len(yielded[g])
        /\ \A k \in 1..Len(fetches[g]) :
              /\ fetches[g][k].offset = (k - 1) * page_size[g]
              /\ k < Len(fetches[g]) => fetches[g][k].ok
        /\ (gpc[g] = "ended" /\ page_size[g] > 0 /\ ~changed[g]) =>
              IF AllFetchesOk(g)
                 THEN Len(fetches[g]) = Ceil(Len(table), page_size[g]) + 1
                 ELSE Len(fetches[g]) <= Ceil(Len(table), page_size[g]) + 1

C19_Witness ==
    /\ gpc[1] = "ended" /\ page_size[1] = 2 /\ ~changed[1] /\ AllFetchesOk(1)
    /\ Len(table) = 3
    /\ Len(yielded[1]) = 2 /\ Len(yielded[1][2]) = 1
    /\ Len(fetches[1]) = 3 /\ fetches[1][3].offset = 4

\* ------------------------------------------------------------------ C20
\* C20: the k-th fetch happens only after the consumer's k-th next(): a
\* generator inside paginate_users is serving a request not yet answered by a
\* fetch, otherwise fetches and requests are equal in number; and a generator
\* the consumer dropped after page k has made k fetches and makes no more.
C20_PullBased ==
    \A g \in Pagers :
        /\ Len(fetches[g]) <= requests[g]
        /\ gpc[g] \in {"fetch", "execute"} => Len(fetches[g]) = requests[g] - 1
        /\ gpc[g] \notin {"fetch", "execute"} => Len(fetches[g]) = requests[g]
        /\ gpc[g] = "abandoned" =>
              /\ Len(fetches[g]) = Len(yielded[g])
              /\ ~ENABLED (PgConnect(g) \/ PgConnectFail(g) \/ PgExecute(g)
                             \/ PgExecuteFail(g) \/ PgNext(g))

C20_Witness ==
    /\ gpc[1] = "abandoned" /\ page_size[1] = 1 /\ ~changed[1]
    /\ Len(table) = 3
    /\ Len(yielded[1]) = 1 /\ Len(fetches[1]) = 1 /\ requests[1] = 1

\* ------------------------------------------------------------------ C21
\* a step of generator g
StepOf(g) ==
    \/ gpc'[g] # gpc[g]
    \/ requests'[g] # requests[g]
    \/ fetches'[g] # fetches[g]

\* C21: every run fetches at offsets 0, p, 2p, ... of its own page size,
\* whatever the other run does; over an unchanged table each page a run
\* yields is the page it yields alone, the rows from its own offset on; and
\* a step of one run leaves the offset, the page and the pages yielded of the
\* other run as they were.
C21_RunsAreIndependent ==
    /\ [](\A g \in Pagers :
            /\ \A k \in 1..Len(fetches[g]) :
                  fetches[g][k].offset = (k - 1) * page_size[g]
            /\ gpc[g] \in {"fetch", "execute"} =>
                  offset[g] = Len(fetches[g]) * page_size[g]
            /\ ~changed[g] =>
                  \A k \in 1..Len(yielded[g]) :
                      yielded[g][k] =
                          Limit(table, page_size[g], (k - 1) * page_size[g]))
    /\ [][\A g \in Pagers : \A h \in Pagers \ {g} :
            (StepOf(g) /\ ~StepOf(h)) =>
                /\ offset'[h] = offset[h]
                /\ page'[h] = page[h]
                /\ yielded'[h] = yielded[h]]_vars

C21_Witness ==
    /\ table = <<1, 2, 3>> /\ ~changed[1] /\ ~changed[2]
    /\ page_size[1] = 1 /\ page_size[2] = 2
    /\ gpc[1] = "yielded" /\ yielded[1] = << <<1>>, <<2>> >> /\ offset[1] = 1
    /\ gpc[2] = "yielded" /\ yielded[2] = << <<1, 2>>, <<3>> >> /\ offset[2] = 2

\* =========================================================================
\* python-generators-0x00/4-stream_ages.py: calculate_average_age pulls the
\* ages one by one from the generator stream_user_ages.  The generator runs
\* only inside the for statement's next(): from its start, or from `yield`,
\* up to the next yield or to its end.
\* =========================================================================
RECURSIVE GCD(_, _)
GCD(a, b) == IF b = 0 THEN a ELSE GCD(b, a % b)

\* total / count for count > 0, as the fraction in lowest terms.  (The ages
\* are Decimal: Python rounds a quotient to 28 significant digits.)
Quotient(total, count) ==
    [tag |-> "number",
     num |-> total \div GCD(total, count),
     den |-> count \div GCD(total, count)]

\* seed.py fills user_data before the ages are streamed.
AgeInsert ==
    /\ apc = "idle"
    /\ Len(ages) < MaxAges
    /\ \E a \in AgeValues : ages' = Append(ages, a)
    /\ UNCHANGED <<apc, sconn, scursor, unread, age, total_age, user_count,
                   average_age, printed, areturn, streamed, updates, divisions>>
    /\ UNCHANGED otherThanStream

\* calculate_average_age(): total_age = 0; user_count = 0; the for statement
\* creates the generator and asks for its first value.
AvgCall ==
    /\ apc = "idle"
    /\ total_age' = 0
    /\ user_count' = 0
    /\ apc' = "connect"
    /\ UNCHANGED <<ages, sconn, scursor, unread, age, average_age, printed,
                   areturn, streamed, updates, divisions>>
    /\ UNCHANGED otherThanStream

\* stream_user_ages: connection = connect_to_prodev() succeeds.
StreamConnect ==
    /\ apc = "connect"
    /\ sconn' = "open"
    /\ apc' = "execute"
    /\ UNCHANGED <<ages, scursor, unread, age, total_age, user_count,
                   average_age, printed, areturn, streamed, updates, divisions>>
    /\ UNCHANGED otherThanStream

\* stream_user_ages: connect_to_prodev() returns None; print; return.
StreamConnectFail ==
    /\ apc = "connect"
    /\ printed' = Append(printed, "could not connect")
    /\ apc' = "after"
    /\ UNCHANGED <<ages, sconn, scursor, unread, age, total_age, user_count,
                   average_age, areturn, streamed, updates, divisions>>
    /\ UNCHANGED otherThanStream

\* stream_user_ages: cursor = connection.cursor(); cursor.execute(query).
StreamExecute ==
    /\ apc = "execute"
    /\ scursor' = "open"
    /\ unread' = ages
    /\ apc' = "iterate"
    /\ UNCHANGED <<ages, sconn, age, total_age, user_count, average_age,
                   printed, areturn, streamed, updates, divisions>>
    /\ UNCHANGED otherThanStream

\* stream_user_ages: execute raises; except prints; finally closes both.
StreamExecuteFail ==
    /\ apc = "execute"
    /\ printed' = Append(printed, "database error")
    /\ scursor' = "closed"
    /\ sconn' = "closed"
    /\ apc' = "after"
    /\ UNCHANGED <<ages, unread, age, total_age, user_count, average_age,
                   areturn, streamed, updates, divisions>>
    /\ UNCHANGED otherThanStream

\* stream_user_ages: for row in cursor: yield row['age']
StreamYield ==
    /\ apc = "iterate"
    /\ unread # <<>>
    /\ age' = Head(unread)
    /\ unread' = Tail(unread)
    /\ streamed' = Append(streamed, Head(unread))
    /\ apc' = "body"
    /\ UNCHANGED <<ages, sconn, scursor, total_age, user_count, average_age,
                   printed, areturn, updates, divisions>>
    /\ UNCHANGED otherThanStream

\* Mutant: stream_user_ages has no except clauses; finally closes both and
\* the error leaves the for statement of calculate_average_age.
StreamRowFail_Propagates ==
    /\ apc = "iterate"
    /\ unread # <<>>
    /\ scursor' = "closed"
    /\ sconn' = "closed"
    /\ areturn' = [tag |-> "raised", kind |-> "mysql.connector.Error"]
    /\ apc' = "done"
    /\ UNCHANGED <<ages, unread, age, total_age, user_count, average_age,
                   printed, streamed, updates, divisions>>
    /\ UNCHANGED otherThanStream

\* stream_user_ages: reading the next row raises; except prints; finally
\* closes both; the generator ends.
StreamRowFail ==
    /\ apc = "iterate"
    /\ unread # <<>>
    /\ printed' = Append(printed, "database error")
    /\ scursor' = "closed"
    /\ sconn' = "closed"
    /\ apc' = "after"
    /\ UNCHANGED <<ages, unread, age, total_age, user_count, average_age,
                   areturn, streamed, updates, divisions>>
    /\ UNCHANGED otherThanStream

\* stream_user_ages: the cursor is exhausted; finally closes both.
StreamEnd ==
    /\ apc = "iterate"
    /\ unread = <<>>
    /\ scursor' = "closed"
    /\ sconn' = "closed"
    /\ apc' = "after"
    /\ UNCHANGED <<ages, unread, age, total_age, user_count, average_age,
                   printed, areturn, streamed, updates, divisions>>
    /\ UNCHANGED otherThanStream

\* Mutant: total_age = age
AvgBody_Assigns ==
    /\ apc = "body"
    /\ total_age' = age
    /\ user_count' = user_count + 1
    /\ updates' = updates + 1
    /\ apc' = "iterate"
    /\ UNCHANGED <<ages, sconn, scursor, unread, age, average_age, printed,
                   areturn, streamed, divisions>>
    /\ UNCHANGED otherThanStream

\* total_age += age; user_count += 1
AvgBody ==
    /\ apc = "body"
    /\ total_age' = total_age + age
    /\ user_count' = user_count + 1
    /\ updates' = updates + 1
    /\ apc' = "iterate"
    /\ UNCHANGED <<ages, sconn, scursor, unread, age, average_age, printed,
                   areturn, streamed, divisions>>
    /\ UNCHANGED otherThanStream

\* if user_count > 0: average_age = total_age / user_count; print; the
\* function ends without a return statement.
AvgDivide ==
    /\ apc = "after"
    /\ user_count > 0
    /\ average_age' = Quotient(total_age, user_count)
    /\ divisions' = divisions + 1
    /\ printed' = Append(printed, "average")
    /\ areturn' = None
    /\ apc' = "done"
    /\ UNCHANGED <<ages, sconn, scursor, unread, age, total_age, user_count,
                   streamed, updates>>
    /\ UNCHANGED otherThanStream

\* Mutant: the division is not guarded.
AvgNoUsers_Divides ==
    /\ apc = "after"
    /\ user_count = 0
    /\ divisions' = divisions + 1
    /\ areturn' = [tag |-> "raised", kind |-> "ZeroDivisionError"]
    /\ apc' = "done"
    /\ UNCHANGED <<ages, sconn, scursor, unread, age, total_age, user_count,
                   average_age, printed, streamed, updates>>
    /\ UNCHANGED otherThanStream

\* else: print("No users found to calculate average age.")
AvgNoUsers ==
    /\ apc = "after"
    /\ user_count = 0
    /\ printed' = Append(printed, "no users")
    /\ areturn' = None
    /\ apc' = "done"
    /\ UNCHANGED <<ages, sconn, scursor, unread, age, total_age, user_count,
                   average_age, streamed, updates, divisions>>
    /\ UNCHANGED otherThanStream

StreamNext ==
    \/ AgeInsert
    \/ AvgCall
    \/ StreamConnect
    \/ StreamConnectFail
    \/ StreamExecute
    \/ StreamExecuteFail
    \/ StreamYield
    \/ StreamRowFail
    \/ StreamEnd
    \/ AvgBody
    \/ AvgDivide
    \/ AvgNoUsers

SpecStream == Init /\ [][StreamNext]_vars

\* ------------------------------------------------------------------ C22
RECURSIVE Sum(_)
Sum(seq) == IF seq = <<>> THEN 0 ELSE Head(seq) + Sum(Tail(seq))

ExampleAges == <<30, 22, 45, 28, 50>>

\* C22 (as stated): over ages [30, 22, 45, 28, 50], all streamed, the result
\* returned by the average computation is 35.
C22_Original ==
    (apc = "done" /\ streamed = ExampleAges) => areturn = Quotient(35, 1)

\* C22 (amended): after k rows the accumulator is (sum of the first k values
\* streamed, k), updated once per row; the division occurs once, after the
\* last row, and gives the sum of the streamed values over their number; the
\* average is printed and the function returns nothing: over ages
\* [30, 22, 45, 28, 50] the average computed and printed is 35.
C22_AverageIsSumOverCount ==
    /\ updates = user_count
    /\ apc = "body" =>
          /\ streamed = Append(SubSeq(streamed, 1, user_count), age)
          /\ total_age = Sum(SubSeq(streamed, 1, user_count))
    /\ apc # "body" =>
          /\ user_count = Len(streamed)
          /\ total_age = Sum(streamed)
    /\ divisions = (IF apc = "done" /\ streamed # <<>> THEN 1 ELSE 0)
    /\ (apc = "done" /\ streamed # <<>>) =>
          /\ average_age.num * Len(streamed) = Sum(streamed) * average_age.den
          /\ Last(printed) = "average"
          /\ areturn = None
    /\ (apc = "done" /\ streamed = ExampleAges) => average_age = Quotient(35, 1)

C22_Witness ==
    /\ apc = "done" /\ ages = ExampleAges /\ streamed = ExampleAges
    /\ total_age = 175 /\ user_count = 5 /\ updates = 5 /\ divisions = 1
    /\ average_age = [tag |-> "number", num |-> 35, den |-> 1]

\* ------------------------------------------------------------------ C23
\* C23 (as stated): with zero rows streamed the average computation ends in
\* an error; it never completes normally.
C23_Original ==
    (apc = "done" /\ streamed = <<>>) => areturn.tag = "raised"

\* C23 (amended): with zero rows streamed the average computation makes no
\* division and has no average, prints that no users were found and
\* completes normally, returning nothing; it raises no error.
C23_NoRowsNoAverage ==
    (apc = "done" /\ streamed = <<>>) =>
        /\ divisions = 0
        /\ average_age = Unset
        /\ Last(printed) = "no users"
        /\ areturn = None

C23_Witness ==
    /\ apc = "done" /\ ages = <<>> /\ streamed = <<>> /\ sconn = "closed"
    /\ printed = <<"no users">>

\* =========================================================================
\* python-context-async-perations-0x02/3-concurrent.py.  One event loop runs
\* fetch_concurrently (task 0) and the two query tasks gather makes.  The
\* loop runs the task at the head of `ready` up to its next await; a task
\* that awaits leaves the queue and returns to its end when what it awaits
\* has happened.  A query task is "created", then "connecting" (awaiting the
\* connection), "connected", "sleeping", "slept", "executing" (awaiting the
\* statement), "executed" or "execfailed", "closing" (awaiting the close in
\* __aexit__), "closed", "done".
\* =========================================================================
\* setup_database: six users with their ages
UserAges == <<30, 22, 45, 28, 50, 38>>

\* what the statement of task t selects
QueryRows(t) ==
    IF t = 1 THEN {u \in 1..Len(UserAges) : TRUE}
    ELSE {u \in 1..Len(UserAges) : UserAges[u] > 40}

InQueue(t) == \E n \in 1..Len(ready) : ready[n] = t
NotDone(t) == qpc[t] # "done"

\* what `ready` and `gathered` become when query task t finishes with
\* outcome o: gather's future gets the first exception at once, or the list
\* of results when every task has one, and then wakes fetch_concurrently.
GatherAfter(t, o) ==
    IF gathered # "pending" THEN "same"
    ELSE IF o.tag # "rows" THEN "exception"
    ELSE IF \A u \in Tasks \ {t} : qpc[u] = "done" THEN "result"
    ELSE "same"

\* query task t, at the head of the queue, ends with outcome o
Finish(t, o) ==
    /\ qpc' = [qpc EXCEPT ![t] = "done"]
    /\ qres' = [qres EXCEPT ![t] = o]
    /\ finishOrder' = Append(finishOrder, t)
    /\ gathered' = (IF GatherAfter(t, o) = "same" THEN gathered
                    ELSE GatherAfter(t, o))
    /\ ready' = (IF GatherAfter(t, o) = "same" THEN Tail(ready)
                 ELSE Append(Tail(ready), 0))

\* asyncio.run(fetch_concurrently()): setup_database, then gather wraps the
\* two coroutines in tasks, in the order passed, and main awaits.
MainGather ==
    /\ mainpc = "idle"
    /\ mainpc' = "gathering"
    /\ qpc' = [t \in Tasks |-> "created"]
    /\ ready' = <<1, 2>>
    /\ UNCHANGED <<qdb, qexc, qres, conns, uses, gathered, all_users,
                   older_users, startOrder, finishOrder>>
    /\ UNCHANGED otherThanAsync

\* print("Starting ..."); async with aiosqlite.connect(db_name) as db: the
\* Connection object is made and the task awaits its opening.
RunStart(t) ==
    /\ ready # <<>> /\ Head(ready) = t
    /\ qpc[t] = "created"
    /\ conns' = Append(conns, "connecting")
    /\ qdb' = [qdb EXCEPT ![t] = Len(conns) + 1]
    /\ qpc' = [qpc EXCEPT ![t] = "connecting"]
    /\ startOrder' = Append(startOrder, t)
    /\ ready' = Tail(ready)
    /\ UNCHANGED <<mainpc, qexc, qres, uses, gathered, all_users, older_users,
                   finishOrder>>
    /\ UNCHANGED otherThanAsync

\* The connection of task t is open.
IoConnect(t) ==
    /\ qpc[t] = "connecting" /\ qexc[t] = "none"
    /\ conns' = [conns EXCEPT ![qdb[t]] = "open"]
    /\ qpc' = [qpc EXCEPT ![t] = "connected"]
    /\ ready' = Append(ready, t)
    /\ UNCHANGED <<mainpc, qdb, qexc, qres, uses, gathered, all_users,
                   older_users, startOrder, finishOrder>>
    /\ UNCHANGED otherThanAsync

\* Opening the connection of task t fails.
IoConnectFail(t) ==
    /\ qpc[t] = "connecting" /\ qexc[t] = "none"
    /\ conns' = [conns EXCEPT ![qdb[t]] = "failed"]
    /\ qexc' = [qexc EXCEPT ![t] = "OperationalError"]
    /\ qpc' = [qpc EXCEPT ![t] = "connected"]
    /\ ready' = Append(ready, t)
    /\ UNCHANGED <<mainpc, qdb, qres, uses, gathered, all_users, older_users,
                   startOrder, finishOrder>>
    /\ UNCHANGED otherThanAsync

\* __aenter__ returned: await asyncio.sleep(...)
RunConnected(t) ==
    /\ ready # <<>> /\ Head(ready) = t
    /\ qpc[t] = "connected" /\ qexc[t] = "none"
    /\ qpc' = [qpc EXCEPT ![t] = "sleeping"]
    /\ ready' = Tail(ready)
    /\ UNCHANGED <<mainpc, qdb, qexc, qres, conns, uses, gathered, all_users,
                   older_users, startOrder, finishOrder>>
    /\ UNCHANGED otherThanAsync

\* __aenter__ raised: the task ends with that exception, the block not entered.
RunConnectFailed(t) ==
    /\ ready # <<>> /\ Head(ready) = t
    /\ qpc[t] = "connected" /\ qexc[t] = "OperationalError"
    /\ Finish(t, [tag |-> "raised", kind |-> qexc[t]])
    /\ UNCHANGED <<mainpc, qdb, qexc, conns, uses, all_users, older_users,
                   startOrder>>
    /\ UNCHANGED otherThanAsync

\* The sleep of task t is over.
Timer(t) ==
    /\ qpc[t] = "sleeping" /\ qexc[t] = "none"
    /\ qpc' = [qpc EXCEPT ![t] = "slept"]
    /\ ready' = Append(ready, t)
    /\ UNCHANGED <<mainpc, qdb, qexc, qres, conns, uses, gathered, all_users,
                   older_users, startOrder, finishOrder>>
    /\ UNCHANGED otherThanAsync

\* Mutant: the statement goes to the connection opened last, a module-level db.
DbOf_Latest(t) == Len(conns)

\* the connection task t's statement runs on: its local `db`
DbOf(t) == qdb[t]

\* cursor = await db.execute(...); users = await cursor.fetchall()
RunSlept(t) ==
    /\ ready # <<>> /\ Head(ready) = t
    /\ qpc[t] = "slept" /\ qexc[t] = "none"
    /\ uses' = uses \cup {<<t, DbOf(t)>>}
    /\ qpc' = [qpc EXCEPT ![t] = "executing"]
    /\ ready' = Tail(ready)
    /\ UNCHANGED <<mainpc, qdb, qexc, qres, conns, gathered, all_users,
                   older_users, startOrder, finishOrder>>
    /\ UNCHANGED otherThanAsync

\* The statement of task t has run and its rows are fetched.
IoExecute(t) ==
    /\ qpc[t] = "executing" /\ qexc[t] = "none"
    /\ qpc' = [qpc EXCEPT ![t] = "executed"]
    /\ ready' = Append(ready, t)
    /\ UNCHANGED <<mainpc, qdb, qexc, qres, conns, uses, gathered, all_users,
                   older_users, startOrder, finishOrder>>
    /\ UNCHANGED otherThanAsync

\* The statement of task t fails.
IoExecuteFail(t) ==
    /\ qpc[t] = "executing" /\ qexc[t] = "none"
    /\ qexc' = [qexc EXCEPT ![t] = "OperationalError"]
    /\ qpc' = [qpc EXCEPT ![t] = "executed"]
    /\ ready' = Append(ready, t)
    /\ UNCHANGED <<mainpc, qdb, qres, conns, uses, gathered, all_users,
                   older_users, startOrder, finishOrder>>
    /\ UNCHANGED otherThanAsync

\* await cursor.close(); the block is left, normally or by the exception:
\* __aexit__ awaits the close of db.
RunExecuted(t) ==
    /\ ready # <<>> /\ Head(ready) = t
    /\ qpc[t] = "executed" /\ qexc[t] # "CancelledError"
    /\ qres' = [qres EXCEPT ![t] =
                   IF qexc[t] = "none"
                   THEN [tag |-> "rows", rows |-> QueryRows(t)] ELSE @]
    /\ qpc' = [qpc EXCEPT ![t] = "closing"]
    /\ ready' = Tail(ready)
    /\ UNCHANGED <<mainpc, qdb, qexc, conns, uses, gathered, all_users,
                   older_users, startOrder, finishOrder>>
    /\ UNCHANGED otherThanAsync

\* The connection of task t is closed.
IoClose(t) ==
    /\ qpc[t] = "closing"
    /\ conns' = [conns EXCEPT ![qdb[t]] = "closed"]
    /\ qpc' = [qpc EXCEPT ![t] = "closed"]
    /\ ready' = Append(ready, t)
    /\ UNCHANGED <<mainpc, qdb, qexc, qres, uses, gathered, all_users,
                   older_users, startOrder, finishOrder>>
    /\ UNCHANGED otherThanAsync

\* __aexit__ returned: print("Finished ..."); return users, or the exception
\* that left the block goes on.
RunClosed(t) ==
    /\ ready # <<>> /\ Head(ready) = t
    /\ qpc[t] = "closed"
    /\ Finish(t, IF qexc[t] = "none" THEN qres[t]
                 ELSE [tag |-> "raised", kind |-> qexc[t]])
    /\ UNCHANGED <<mainpc, qdb, qexc, conns, uses, all_users, older_users,
                   startOrder>>
    /\ UNCHANGED otherThanAsync

\* CancelledError is thrown into task t at its await: inside the block
\* __aexit__ awaits the close of db, before it the task just ends.
RunCancelled(t) ==
    /\ ready # <<>> /\ Head(ready) = t
    /\ qexc[t] = "CancelledError"
    /\ qpc[t] \in {"created", "connecting", "connected", "sleeping", "slept",
                   "executing", "executed"}
    /\ IF qpc[t] \in {"created", "connecting", "connected"}
          THEN /\ Finish(t, [tag |-> "raised", kind |-> "CancelledError"])
               /\ UNCHANGED <<mainpc, qdb, qexc, conns, uses, all_users,
                              older_users, startOrder>>
          ELSE /\ qpc' = [qpc EXCEPT ![t] = "closing"]
               /\ ready' = Tail(ready)
               /\ UNCHANGED <<mainpc, qdb, qexc, qres, conns, uses, gathered,
                              all_users, older_users, startOrder, finishOrder>>
    /\ UNCHANGED otherThanAsync

\* Mutant: the results are bound in the order the tasks finished.
GatherResults_ByCompletion == [n \in 1..2 |-> qres[finishOrder[n]]]

\* asyncio.gather's result list: one entry per awaitable, in the order passed
GatherResults == [n \in 1..2 |-> qres[n]]

\* gather's future holds an exception
GatherRaises == gathered = "exception"

\* all_users, older_users = await asyncio.gather(...) has its list; the
\* results are printed and fetch_concurrently ends.
MainResume ==
    /\ ready # <<>> /\ Head(ready) = 0
    /\ mainpc = "gathering"
    /\ ~GatherRaises
    /\ all_users' = GatherResults[1]
    /\ older_users' = GatherResults[2]
    /\ mainpc' = "done"
    /\ ready' = Tail(ready)
    /\ UNCHANGED <<qpc, qdb, qexc, qres, conns, uses, gathered, startOrder,
                   finishOrder>>
    /\ UNCHANGED otherThanAsync

\* The await raises the first exception of a query task: fetch_concurrently
\* ends with it, and asyncio.run cancels the tasks still running.
MainRaise ==
    /\ ready # <<>> /\ Head(ready) = 0
    /\ mainpc = "gathering"
    /\ GatherRaises
    /\ mainpc' = "failed"
    /\ qexc' = [t \in Tasks |->
                   IF NotDone(t) /\ qpc[t] \notin {"closing", "closed"}
                   THEN "CancelledError" ELSE qexc[t]]
    /\ ready' = Tail(ready) \o
                   (IF NotDone(1) /\ ~InQueue(1) /\ qpc[1] # "closing"
                    THEN <<1>> ELSE <<>>) \o
                   (IF NotDone(2) /\ ~InQueue(2) /\ qpc[2] # "closing"
                    THEN <<2>> ELSE <<>>)
    /\ UNCHANGED <<qpc, qdb, qres, conns, uses, gathered, all_users,
                   older_users, startOrder, finishOrder>>
    /\ UNCHANGED otherThanAsync

AsyncNext ==
    \/ MainGather
    \/ \E t \in Tasks : RunStart(t)
    \/ \E t \in Tasks : IoConnect(t)
    \/ \E t \in Tasks : IoConnectFail(t)
    \/ \E t \in Tasks : RunConnected(t)
    \/ \E t \in Tasks : RunConnectFailed(t)
    \/ \E t \in Tasks : Timer(t)
    \/ \E t \in Tasks : RunSlept(t)
    \/ \E t \in Tasks : IoExecute(t)
    \/ \E t \in Tasks : IoExecuteFail(t)
    \/ \E t \in Tasks : RunExecuted(t)
    \/ \E t \in Tasks : IoClose(t)
    \/ \E t \in Tasks : RunClosed(t)
    \/ \E t \in Tasks : RunCancelled(t)
    \/ MainResume
    \/ MainRaise

SpecAsync == Init /\ [][AsyncNext]_vars

\* ------------------------------------------------------------------ C24
\* C24: each of the two query tasks has a connection of its own; every
\* statement a task executes runs on that task's connection, which is open
\* while the statement runs; no connection is used by both tasks; and a task
\* that has returned its rows has closed its connection.
C24_OwnConnection ==
    /\ (qdb[1] # 0 /\ qdb[2] # 0) => qdb[1] # qdb[2]
    /\ \A u \in uses : u[2] = qdb[u[1]]
    /\ \A u \in uses : \A v \in uses : u[2] = v[2] => u[1] = v[1]
    /\ \A t \in Tasks :
          /\ qpc[t] = "executing" =>
                /\ <<t, qdb[t]>> \in uses
                /\ conns[qdb[t]] = "open"
          /\ (qpc[t] = "done" /\ qres[t].tag = "rows") =>
                /\ conns[qdb[t]] = "closed"
                /\ <<t, qdb[t]>> \in uses

C24_Witness ==
    /\ qpc[1] = "executing" /\ qpc[2] = "executing"
    /\ qdb = <<1, 2>> /\ conns = <<"open", "open">>
    /\ uses = {<<1, 1>>, <<2, 2>>}

Managers == {"DatabaseConnection", "ExecuteQuery"}

\* exceptions a block can raise: an sqlite3.Error or another Exception
BlockFailures == {"IntegrityError", "ValueError"}

\* with DatabaseConnection(DB_FILE) as conn: / with ExecuteQuery(DB_FILE,
\* query, params) as cursor: __init__ sets conn, cursor and results to None.
CtxWith ==
    /\ xpc \in {"idle", "done"}
    /\ withs < MaxWiths
    /\ withs' = withs + 1
    /\ \E m \in Managers :
          /\ manager' = m
          /\ \E q \in {"select", "insert"} :
                xquery' = IF m = "ExecuteQuery" THEN q ELSE "none"
    /\ xpc' = "enter"
    /\ xconn' = "none"
    /\ xpending' = FALSE
    /\ xblock' = "none"
    /\ xexc' = NoExc
    /\ xresults' = None
    /\ xevents' = <<>>
    /\ UNCHANGED xcommitted
    /\ UNCHANGED otherThanCtx

\* __enter__: self.conn = sqlite3.connect(self.db_name); self.cursor = ...
CtxConnect ==
    /\ xpc = "enter"
    /\ xconn' = "open"
    /\ xevents' = Append(xevents, "open")
    /\ xpc' = IF manager = "ExecuteQuery" THEN "execute" ELSE "block"
    /\ UNCHANGED <<manager, xquery, xpending, xcommitted, xblock, xexc,
                   xresults, withs>>
    /\ UNCHANGED otherThanCtx

\* __enter__: sqlite3.connect raises; except prints; raise.
CtxConnectFail ==
    /\ xpc = "enter"
    /\ xexc' = Failure("OperationalError", "connect")
    /\ xpc' = "done"
    /\ UNCHANGED <<manager, xquery, xconn, xpending, xcommitted, xblock,
                   xresults, xevents, withs>>
    /\ UNCHANGED otherThanCtx

\* ExecuteQuery.__enter__: self.cursor.execute(self.query, self.params);
\* results fetched for a SELECT; return self.cursor.
CtxEnterExecute ==
    /\ xpc = "execute"
    /\ xevents' = Append(xevents, "execute")
    /\ xpending' = (xquery = "insert")
    /\ xresults' = IF xquery = "select" THEN Value({1, 2}) ELSE xresults
    /\ xpc' = "block"
    /\ UNCHANGED <<manager, xquery, xconn, xcommitted, xblock, xexc, withs>>
    /\ UNCHANGED otherThanCtx

\* ExecuteQuery.__enter__: execute raises; except prints; raise.  __enter__
\* did not return, so the with statement does not call __exit__.
CtxEnterExecuteFail ==
    /\ xpc = "execute"
    /\ xevents' = Append(xevents, "execute")
    /\ xexc' = Failure("OperationalError", "execute")
    /\ xpc' = "done"
    /\ UNCHANGED <<manager, xquery, xconn, xpending, xcommitted, xblock,
                   xresults, withs>>
    /\ UNCHANGED otherThanCtx

\* The block executes an INSERT on the connection.
CtxBlockWrite ==
    /\ xpc = "block"
    /\ manager = "DatabaseConnection"
    /\ ~xpending
    /\ xpending' = TRUE
    /\ UNCHANGED <<manager, xquery, xpc, xconn, xcommitted, xblock, xexc,
                   xresults, xevents, withs>>
    /\ UNCHANGED otherThanCtx

\* The block ends normally: __exit__(None, None, None).
CtxBlockEnd ==
    /\ xpc = "block"
    /\ xblock' = "normal"
    /\ xpc' = "exit"
    /\ UNCHANGED <<manager, xquery, xconn, xpending, xcommitted, xexc,
                   xresults, xevents, withs>>
    /\ UNCHANGED otherThanCtx

\* The block raises: __exit__(exc_type, exc_val, exc_tb).
CtxBlockRaise ==
    /\ xpc = "block"
    /\ \E k \in BlockFailures : xblock' = k
    /\ xpc' = "exit"
    /\ UNCHANGED <<manager, xquery, xconn, xpending, xcommitted, xexc,
                   xresults, xevents, withs>>
    /\ UNCHANGED otherThanCtx

\* __exit__: else: self.conn.commit()
CtxCommit ==
    /\ xpc = "exit"
    /\ xblock = "normal"
    /\ xevents' = Append(xevents, "commit")
    /\ xcommitted' = xcommitted + (IF xpending THEN 1 ELSE 0)
    /\ xpending' = FALSE
    /\ xpc' = "close"
    /\ UNCHANGED <<manager, xquery, xconn, xblock, xexc, xresults, withs>>
    /\ UNCHANGED otherThanCtx

\* __exit__: self.conn.commit() raises and the exception leaves __exit__.
CtxCommitFail ==
    /\ xpc = "exit"
    /\ xblock = "normal"
    /\ xevents' = Append(xevents, "commit failed")
    /\ xexc' = Failure("OperationalError", "commit")
    /\ xpc' = "done"
    /\ UNCHANGED <<manager, xquery, xconn, xpending, xcommitted, xblock,
                   xresults, withs>>
    /\ UNCHANGED otherThanCtx

\* __exit__: if exc_type: self.conn.rollback()
CtxRollback ==
    /\ xpc = "exit"
    /\ xblock \in BlockFailures
    /\ xevents' = Append(xevents, "rollback")
    /\ xpending' = FALSE
    /\ xpc' = "close"
    /\ UNCHANGED <<manager, xquery, xconn, xcommitted, xblock, xexc,
                   xresults, withs>>
    /\ UNCHANGED otherThanCtx

\* __exit__: self.conn.rollback() raises and the exception leaves __exit__
\* in place of the block's.
CtxRollbackFail ==
    /\ xpc = "exit"
    /\ xblock \in BlockFailures
    /\ xevents' = Append(xevents, "rollback failed")
    /\ xexc' = Failure("OperationalError", "rollback")
    /\ xpc' = "done"
    /\ UNCHANGED <<manager, xquery, xconn, xpending, xcommitted, xblock,
                   xresults, withs>>
    /\ UNCHANGED otherThanCtx

\* __exit__: self.conn.close(); return False: the block's exception, if
\* any, goes on to the caller.
CtxClose ==
    /\ xpc = "close"
    /\ xconn' = "closed"
    /\ xevents' = Append(xevents, "close")
    /\ xexc' = IF xblock \in BlockFailures THEN Failure(xblock, "block")
               ELSE NoExc
    /\ xpc' = "done"
    /\ UNCHANGED <<manager, xquery, xpending, xcommitted, xblock, xresults,
                   withs>>
    /\ UNCHANGED otherThanCtx

CtxNext ==
    \/ CtxWith
    \/ CtxConnect
    \/ CtxConnectFail
    \/ CtxEnterExecute
    \/ CtxEnterExecuteFail
    \/ CtxBlockWrite
    \/ CtxBlockEnd
    \/ CtxBlockRaise
    \/ CtxCommit
    \/ CtxCommitFail
    \/ CtxRollback
    \/ CtxRollbackFail
    \/ CtxClose

SpecCtx == Init /\ [][CtxNext]_vars

\* ------------------------------------------------------------------ C25
\* C25: when a DatabaseConnection with statement whose block was entered is
\* over, the connection was committed (block ended normally) or rolled back
\* (block raised) and then closed, and an exception of the block is what the
\* caller gets.
C25_CommitOrRollbackThenClose ==
    (manager = "DatabaseConnection" /\ xpc = "done" /\ xblock # "none") =>
        /\ xconn = "closed"
        /\ xevents = <<"open", IF xblock = "normal" THEN "commit"
                               ELSE "rollback", "close">>
        /\ xexc = (IF xblock = "normal" THEN NoExc ELSE Failure(xblock, "block"))

\* ------------------------------------------------------------------ C26
\* C26: when an ExecuteQuery with statement is over, a connection it opened
\* was rolled back or committed and then closed, also when the query failed
\* in __enter__, and that failure is what the caller gets.
C26_EntryFailureHandledByExit ==
    (manager = "ExecuteQuery" /\ xpc = "done" /\ xconn # "none") =>
        /\ xconn = "closed"
        /\ Len(xevents) >= 2
        /\ xevents[Len(xevents) - 1] \in {"commit", "rollback"}
        /\ Last(xevents) = "close"
        /\ xexc.origin = "execute" => xevents = <<"open", "execute", "rollback", "close">>

\* =========================================================================
\* Django-signals_orm-0x04/messaging: Model.save() sends pre_save, writes the
\* row (INSERT for a new instance, UPDATE for an existing one) and sends
\* post_save with `created`; the receivers of signals.py run inside it.
\* =========================================================================
Users == {1, 2}
Contents == {"Hello World", "Hello again"}

\* The app's ready() imports messaging.signals, which connects the receivers.
SignalsImported == TRUE

\* Mutant: the receiver ignores `created`.
CreateNotification_Always(notifs, instance, created) ==
    Append(notifs, [user |-> instance.receiver, message |-> instance.pk])

\* create_notification: if created: Notification.objects.create(user=
\* instance.receiver, message=instance)
CreateNotification(notifs, instance, created) ==
    IF created
    THEN Append(notifs, [user |-> instance.receiver, message |-> instance.pk])
    ELSE notifs

\* Mutant: the receiver logs every save of a message that has a row.
ContentChanged_Always(instance) ==
    instance.pk \in DOMAIN messages

\* log_message_edit: whether the instance being saved has a row whose content
\* differs from the instance's
ContentChanged(instance) ==
    /\ instance.pk \in DOMAIN messages
    /\ messages[instance.pk].content # instance.content

\* post_save receivers of Message
PostSave(notifs, instance, created) ==
    IF SignalsImported THEN CreateNotification(notifs, instance, created)
    ELSE notifs

\* Message.objects.create(sender=..., receiver=..., content=...): the
\* instance has no pk at pre_save; the row is inserted; post_save(created=True).
MessageCreate ==
    /\ Len(messages) < MaxMessages
    /\ \E sd \in Users, rc \in Users, c \in Contents :
          LET instance == [pk |-> Len(messages) + 1, sender |-> sd,
                           receiver |-> rc, content |-> c, edited |-> FALSE]
          IN /\ messages' = Append(messages,
                    [sender |-> sd, receiver |-> rc, content |-> c,
                     edited |-> FALSE])
             /\ notifications' = PostSave(notifications, instance, TRUE)
             /\ saves' = Append(saves, [message |-> instance.pk, created |-> TRUE,
                                        old |-> c, new |-> c])
    /\ UNCHANGED histories
    /\ UNCHANGED otherThanSignals

\* message.content = c; message.save() on a message that has a row:
\* pre_save logs the old content if it differs and marks the instance edited;
\* the row is updated; post_save(created=False).
MessageSave ==
    /\ Len(SelectSeq(saves, LAMBDA r : ~r.created)) < MaxSaves
    /\ \E pk \in DOMAIN messages, c \in Contents :
          LET loaded == [pk |-> pk, sender |-> messages[pk].sender,
                         receiver |-> messages[pk].receiver, content |-> c,
                         edited |-> messages[pk].edited]
              differs == SignalsImported /\ ContentChanged(loaded)
              instance == [loaded EXCEPT !.edited = IF differs THEN TRUE ELSE @]
          IN /\ histories' = (IF differs
                              THEN Append(histories,
                                      [message |-> pk,
                                       old_content |-> messages[pk].content])
                              ELSE histories)
             /\ messages' = [messages EXCEPT ![pk] =
                                [sender |-> instance.sender,
                                 receiver |-> instance.receiver,
                                 content |-> instance.content,
                                 edited |-> instance.edited]]
             /\ notifications' = PostSave(notifications, instance, FALSE)
             /\ saves' = Append(saves, [message |-> pk, created |-> FALSE,
                                        old |-> messages[pk].content, new |-> c])
    /\ UNCHANGED otherThanSignals

SignalsNext ==
    \/ MessageCreate
    \/ MessageSave

SpecSignals == Init /\ [][SignalsNext]_vars

\* ------------------------------------------------------------------ C27
NotificationsOf(m) ==
    SelectSeq(notifications, LAMBDA n : n.message = m)

\* C27: every message has exactly one notification, made by the save that
\* created it, for the message's receiver and referencing the message; saves
\* of existing messages add none: the notifications are as many as the
\* messages created.
C27_OneNotificationPerMessage ==
    /\ Len(notifications) = Len(messages)
    /\ Len(notifications) = Len(SelectSeq(saves, LAMBDA r : r.created))
    /\ \A m \in DOMAIN messages :
          NotificationsOf(m) = <<[user |-> messages[m].receiver, message |-> m]>>

C27_Witness ==
    /\ Len(messages) = 2 /\ Len(notifications) = 2 /\ Len(saves) = 4
    /\ histories # <<>>
    /\ notifications[1].user # notifications[2].user

\* ------------------------------------------------------------------ C28
\* C28: at every moment each cache entry is the complete result of a
\* successful compute for its query text, and no step but a clear removes an
\* entry or replaces its value: a hit writes nothing, a miss adds the entry
\* of a key that had none.
C28_EntriesStableUntilClear ==
    /\ [](\A k \in DOMAIN ccache :
            ccache[k] \in [query : {k[1]}, param : ParamsOf(k[1]),
                           version : 0..data])
    /\ [][CacheClear \/ (\A k \in DOMAIN ccache :
                            k \in DOMAIN ccache' /\ ccache'[k] = ccache[k])]_vars
    /\ [][(cpc = "lookup" /\ Key \in DOMAIN ccache) => ccache' = ccache]_vars

C28_Witness ==
    /\ ccalls = 3 /\ cpc = "done" /\ CHas("hit")
    /\ data = 1 /\ ccache[Key].version = 0
    /\ cparam = 2 /\ ccache[Key].param = 1

\* ------------------------------------------------------------------ C29
\* C29: a generator has an open connection exactly while it is inside
\* paginate_users between the connect and the finally clause: a fetch starts
\* with no connection, opens at most one, and a fetch that returned rows has
\* closed its connection before the page is tested and handed over; a
\* generator suspended at the yield holds a closed connection, never an open
\* one.
C29_ConnectionPerFetch ==
    \A g \in Pagers :
        /\ connection[g] = "open" <=> gpc[g] = "execute"
        /\ gpc[g] \in {"test", "yielded", "ended"} =>
              /\ fetches[g] # <<>>
              /\ Last(fetches[g]).ok => connection[g] = "closed"
        /\ gpc[g] = "yielded" => connection[g] = "closed"
        /\ gpc[g] \in {"new", "created", "fetch"} => connection[g] = "none"

C29_Witness ==
    /\ gpc[1] = "yielded" /\ connection[1] = "closed"
    /\ Len(fetches[1]) = 2 /\ Len(yielded[1]) = 2

\* ------------------------------------------------------------------ C32
\* The content message saves[sv].message had right before save sv: what the
\* latest earlier save of that message wrote.
ContentBefore(sv) ==
    LET earlier == {pv \in 1..(sv - 1) : saves[pv].message = saves[sv].message}
        pv == CHOOSE x \in earlier : \A y \in earlier : y <= x
    IN saves[pv].new

\* Save sv is a save of an existing message that changes its content.
IsEdit(sv) ==
    /\ ~saves[sv].created
    /\ saves[sv].new # ContentBefore(sv)

RECURSIVE ExpectedHistory(_)
\* The history records the first n saves must have left, in order.
ExpectedHistory(n) ==
    IF n = 0 THEN <<>>
    ELSE IF IsEdit(n)
         THEN Append(ExpectedHistory(n - 1),
                     [message |-> saves[n].message,
                      old_content |-> ContentBefore(n)])
         ELSE ExpectedHistory(n - 1)

LastFetchFailed(g) == fetches[g] # <<>> /\ ~Last(fetches[g]).ok

\* C33: a fetch that failed has handed lazy_paginate an empty page and
\* nothing else: the generator is at its `if not page` test or has ended, no
\* error has left next(); the failing fetch and the end of the run leave the
\* pages yielded before as they were, and the only step the generator takes
\* after the failed fetch is the break that ends it, as on an empty page at
\* the end of the data.
C33_FailedFetchEndsQuietly ==
    /\ [](\A g \in Pagers :
            LastFetchFailed(g) =>
                /\ gpc[g] \in {"test", "ended"}
                /\ page[g] = <<>>
                /\ Len(yielded[g]) = Len(fetches[g]) - 1)
    /\ [][\A g \in Pagers :
            (fetches'[g] # fetches[g] /\ ~Last(fetches'[g]).ok) =>
                /\ yielded'[g] = yielded[g]
                /\ gpc'[g] = "test"]_vars
    /\ [][\A g \in Pagers :
            (LastFetchFailed(g) /\ StepOf(g)) =>
                /\ gpc[g] = "test" /\ gpc'[g] = "ended"
                /\ yielded'[g] = yielded[g]
                /\ fetches'[g] = fetches[g]]_vars

C33_Witness ==
    /\ gpc[1] = "ended" /\ LastFetchFailed(1) /\ ~changed[1]
    /\ page_size[1] = 1 /\ table = <<1, 2, 3>>
    /\ yielded[1] = << <<1>>, <<2>> >>
    /\ connection[1] = "closed"

\* ------------------------------------------------------------------ C38
\* no row occurs twice in s
NoRepeats(s) ==
    \A k \in DOMAIN s : \A m \in DOMAIN s : s[k] = s[m] => k = m

\* C38 (as stated): the pages of a run hold no row twice, and a run with
\* page_size > 0 that has ended without a failed fetch has yielded every row
\* that was in the table at each of its fetches, whatever was inserted or
\* deleted in between.
C38_Original ==
    \A g \in Pagers :
        (page_size[g] > 0 /\ AllFetchesOk(g)) =>
            /\ NoRepeats(Flatten(yielded[g]))
            /\ gpc[g] = "ended" => present[g] \subseteq Rows(Flatten(yielded[g]))

\* C38 (amended): the same as long as every row inserted or deleted between
\* the fetches of the run comes after the rows the run has already fetched.
C38_NoRepeatNoSkipUnlessDisturbed ==
    \A g \in Pagers :
        (page_size[g] > 0 /\ AllFetchesOk(g) /\ ~disturbed[g]) =>
            /\ NoRepeats(Flatten(yielded[g]))
            /\ gpc[g] = "ended" => present[g] \subseteq Rows(Flatten(yielded[g]))

C38_Witness ==
    /\ gpc[1] = "ended" /\ page_size[1] = 1 /\ AllFetchesOk(1)
    /\ changed[1] /\ ~disturbed[1]
    /\ inserted = 3 /\ deleted = 1 /\ Len(table) = 2
    /\ Len(yielded[1]) = 2
    /\ Rows(Flatten(yielded[1])) \ present[1] # {}
    /\ present[1] # {}

\* ------------------------------------------------------------------ C34
\* reading a row failed: the for loop of calculate_average_age is over and
\* rows were left unread
MidStreamFailure ==
    /\ apc \in {"after", "done"}
    /\ unread # <<>>

\* C34: after a failure while reading the rows the generator has ended like
\* an exhausted one: cursor and connection are closed, no error reaches
\* calculate_average_age, whose sum and count are those of the rows streamed
\* before the failure; when it is done it has printed their average, or
\* that there are no users when no row came before the failure, and it
\* returned normally.
C34_FailureEndsStreamQuietly ==
    MidStreamFailure =>
        /\ printed # <<>> /\ printed[1] = "database error"
        /\ scursor = "closed" /\ sconn = "closed"
        /\ streamed \o unread = ages
        /\ user_count = Len(streamed) /\ total_age = Sum(streamed)
        /\ apc = "done" =>
              /\ areturn = None
              /\ IF streamed = <<>>
                 THEN /\ printed = <<"database error", "no users">>
                      /\ average_age = Unset
                 ELSE /\ printed = <<"database error", "average">>
                      /\ average_age = Quotient(Sum(streamed), Len(streamed))

C34_Witness ==
    /\ MidStreamFailure /\ apc = "done"
    /\ ages = <<30, 22, 45, 28>> /\ streamed = <<30, 22>>
    /\ average_age = Quotient(26, 1)
    /\ sconn = "closed"

\* ------------------------------------------------------------------ C35
\* C35: a call through retry_on_failure that has completed normally on an
\* open connection has invoked the operation at least once and returns what
\* an invocation returned, whatever `retries` is.
C35_InvokedAtLeastOnce ==
    (Done /\ Retry /\ exc = NoExc /\ "open" \in Rows(events)) =>
        /\ attempts # <<>>
        /\ Last(attempts).outcome = "return"
        /\ result = Last(attempts).value

\* ------------------------------------------------------------------ C36
\* C36: under retry_on_failure, while the connection is open every row
\* written in the call, by whichever attempt, is either pending in the
\* connection's transaction or durable; a failing attempt, the sleep and the
\* start of the next attempt leave the pending rows and the store as they
\* are; an attempt that returns sees the pending rows, and a commit inside
\* an attempt makes all of them durable; a call that is over without a
\* commit has left none of its rows in the store, and nothing is pending
\* once the connection is closed.
C36_FailedWritesStayPending ==
    /\ []((Retry /\ conn = "open") => written \subseteq (pending \cup store))
    /\ []((Retry /\ Done) =>
            /\ pending = {}
            /\ "opcommit" \notin Rows(events) => written \cap store = {})
    /\ [][(Retry /\ (pc \in {"sleep", "loop"} \/ (pc = "op" /\ pc' # "op"))) =>
            (pending' = pending /\ store' = store)]_vars
    /\ [][(Retry /\ pc = "op" /\ pc' = "finally" /\ exc' = NoExc) =>
            result' = Value(store \cup pending)]_vars
    /\ [][(Retry /\ pc = "op" /\ store' # store) =>
            (store' = store \cup pending /\ pending' = {})]_vars

C36_Witness ==
    /\ Retry /\ pc = "loop" /\ i = 1 /\ retries = 2 /\ conn = "open"
    /\ Len(attempts) = 1 /\ attempts[1].outcome = "OperationalError"
    /\ events = <<"open", "attempt", "sleep">>
    /\ Cardinality(pending) = 2 /\ pending = written

\* =========================================================================
\* Django-Middleware-0x03/chats/middleware.py: OffensiveLanguageMiddleware.
\* Django makes one instance and calls it for every request, from whichever
\* thread handles the request.  A handler thread is "idle", then "called"
\* (in __call__, before the method test), "filter" and "assign" (before and
\* after the list comprehension of line 71 has read the list), "check"
\* (before the length test), "append" (after it passed) and "done".
\* time.time() is taken not to go backwards.
\* =========================================================================
\* current_time - t < 60
Window == 60
Fresh(now, t) == now - t < Window

\* Mutant: the sixth request still passes.
OverLimit_Sixth(n) == n > 5

\* len(self.ip_requests[ip]) >= 5
RateLimit == 5
OverLimit(n) == n >= RateLimit

\* the timestamps of list l that the comprehension keeps at time now
Pruned(l, now) == SelectSeq(l, LAMBDA t : Fresh(now, t))

\* the clock advances
Tick ==
    /\ clock < MaxTicks * TickSeconds
    /\ clock' = clock + TickSeconds
    /\ UNCHANGED <<ip_requests, hpc, method, ip, current_time, kept, response,
                   admitted, arrived>>
    /\ UNCHANGED otherThanMw

\* A request with a method of ms from an address of as arrives and handler h
\* calls the middleware with it.
MwArrive(h, ms, as) ==
    /\ hpc[h] \in {"idle", "done"}
    /\ arrived < MaxRequests
    /\ arrived' = arrived + 1
    /\ \E m \in ms, a \in as :
          /\ method' = [method EXCEPT ![h] = m]
          /\ ip' = [ip EXCEPT ![h] = a]
    /\ response' = [response EXCEPT ![h] = 0]
    /\ kept' = [kept EXCEPT ![h] = <<>>]
    /\ hpc' = [hpc EXCEPT ![h] = "called"]
    /\ UNCHANGED <<clock, ip_requests, current_time, admitted>>
    /\ UNCHANGED otherThanMw

\* request.method != 'POST': response = self.get_response(request)
MwNotPost(h) ==
    /\ hpc[h] = "called"
    /\ method[h] # "POST"
    /\ response' = [response EXCEPT ![h] = 200]
    /\ hpc' = [hpc EXCEPT ![h] = "done"]
    /\ UNCHANGED <<clock, ip_requests, method, ip, current_time, kept,
                   admitted, arrived>>
    /\ UNCHANGED otherThanMw

\* POST: current_time = time.time(); if ip not in self.ip_requests:
\* self.ip_requests[ip] = []
MwStamp(h) ==
    /\ hpc[h] = "called"
    /\ method[h] = "POST"
    /\ current_time' = [current_time EXCEPT ![h] = clock]
    /\ ip_requests' = [ip_requests EXCEPT ![ip[h]] =
                          IF @ = Absent THEN <<>> ELSE @]
    /\ hpc' = [hpc EXCEPT ![h] = "filter"]
    /\ UNCHANGED <<clock, method, ip, kept, response, admitted, arrived>>
    /\ UNCHANGED otherThanMw

\* [t for t in self.ip_requests[ip] if current_time - t < 60]: the list is
\* read and the new list is built
MwFilter(h) ==
    /\ hpc[h] = "filter"
    /\ kept' = [kept EXCEPT ![h] = Pruned(ip_requests[ip[h]], current_time[h])]
    /\ hpc' = [hpc EXCEPT ![h] = "assign"]
    /\ UNCHANGED <<clock, ip_requests, method, ip, current_time, response,
                   admitted, arrived>>
    /\ UNCHANGED otherThanMw

\* self.ip_requests[ip] = <the new list>
MwAssign(h) ==
    /\ hpc[h] = "assign"
    /\ ip_requests' = [ip_requests EXCEPT ![ip[h]] = kept[h]]
    /\ hpc' = [hpc EXCEPT ![h] = "check"]
    /\ UNCHANGED <<clock, method, ip, current_time, kept, response, admitted,
                   arrived>>
    /\ UNCHANGED otherThanMw

\* if len(self.ip_requests[ip]) >= 5: return JsonResponse(..., status=429)
MwReject(h) ==
    /\ hpc[h] = "check"
    /\ OverLimit(Len(ip_requests[ip[h]]))
    /\ response' = [response EXCEPT ![h] = 429]
    /\ hpc' = [hpc EXCEPT ![h] = "done"]
    /\ UNCHANGED <<clock, ip_requests, method, ip, current_time, kept,
                   admitted, arrived>>
    /\ UNCHANGED otherThanMw

\* the length test fails: go on to the append
MwPass(h) ==
    /\ hpc[h] = "check"
    /\ ~OverLimit(Len(ip_requests[ip[h]]))
    /\ hpc' = [hpc EXCEPT ![h] = "append"]
    /\ UNCHANGED <<clock, ip_requests, method, ip, current_time, kept,
                   response, admitted, arrived>>
    /\ UNCHANGED otherThanMw

\* self.ip_requests[ip].append(current_time);
\* response = self.get_response(request)
MwAppend(h) ==
    /\ hpc[h] = "append"
    /\ ip_requests' = [ip_requests EXCEPT ![ip[h]] = Append(@, current_time[h])]
    /\ admitted' = [admitted EXCEPT ![ip[h]] = Append(@, current_time[h])]
    /\ response' = [response EXCEPT ![h] = 200]
    /\ hpc' = [hpc EXCEPT ![h] = "done"]
    /\ UNCHANGED <<clock, method, ip, current_time, kept, arrived>>
    /\ UNCHANGED otherThanMw

\* requests handled one at a time
MwNext ==
    \/ Tick
    \/ MwArrive(1, Methods, IPs)
    \/ MwNotPost(1)
    \/ MwStamp(1)
    \/ MwFilter(1)
    \/ MwAssign(1)
    \/ MwReject(1)
    \/ MwPass(1)
    \/ MwAppend(1)

SpecMw == Init /\ [][MwNext]_vars

\* POST requests of one address handled by two threads at once, all within
\* the same second
MwThreadsNext ==
    \/ \E h \in Handlers : MwArrive(h, {"POST"}, {"10.0.0.1"})
    \/ \E h \in Handlers : MwStamp(h)
    \/ \E h \in Handlers : MwFilter(h)
    \/ \E h \in Handlers : MwAssign(h)
    \/ \E h \in Handlers : MwReject(h)
    \/ \E h \in Handlers : MwPass(h)
    \/ \E h \in Handlers : MwAppend(h)

SpecMwThreads == Init /\ [][MwThreadsNext]_vars

\* ------------------------------------------------------------------ C31
\* the POSTs of address a passed on so far that are less than 60 s old at
\* time now
RecentAdmitted(a, now) ==
    Cardinality({k \in DOMAIN admitted[a] : Fresh(now, admitted[a][k])})

\* any six POSTs of address a passed on span 60 s or more
AtMostFivePerWindow(a) ==
    \A k \in DOMAIN admitted[a] :
        (k + RateLimit) \in DOMAIN admitted[a] =>
            admitted[a][k + RateLimit] - admitted[a][k] >= Window

\* C31: with one request handled at a time, no six POSTs of one address are
\* passed on within 60 seconds; the length test answers 429 exactly when
\* five POSTs of the address passed on are less than 60 s old at the
\* request's time, and then nothing is recorded or passed on; a request
\* that is not a POST gets the view's response and leaves the lists alone;
\* and a request of one address leaves the list and the count of every
\* other address as they were.
C31_FivePostsPerMinute ==
    /\ [](\A a \in IPs : AtMostFivePerWindow(a))
    /\ [][(hpc[1] = "check" /\ hpc'[1] # "check") =>
            IF RecentAdmitted(ip[1], current_time[1]) >= RateLimit
               THEN /\ response'[1] = 429 /\ hpc'[1] = "done"
                    /\ ip_requests' = ip_requests /\ admitted' = admitted
               ELSE hpc'[1] = "append"]_vars
    /\ [][(hpc[1] = "called" /\ method[1] # "POST" /\ hpc'[1] # "called") =>
            /\ response'[1] = 200 /\ hpc'[1] = "done"
            /\ ip_requests' = ip_requests /\ admitted' = admitted]_vars
    /\ [][\A a \in IPs \ {ip'[1]} :
            ip_requests'[a] = ip_requests[a] /\ admitted'[a] = admitted[a]]_vars

C31_Witness ==
    /\ hpc[1] = "done" /\ method[1] = "POST" /\ response[1] = 429
    /\ arrived = 7 /\ clock = 30 /\ current_time[1] = 30
    /\ admitted[ip[1]] = <<0, 0, 0, 0, 30>>
    /\ \E a \in IPs \ {ip[1]} : Len(admitted[a]) = 1

\* ------------------------------------------------------------------ C37
\* C37: with POSTs of one address handled by two threads at once, still no
\* six of them are passed on within 60 seconds, and every timestamp of a
\* POST passed on that is less than 60 s old is in the list of its address.
C37_BoundHoldsConcurrently ==
    \A a \in IPs :
        /\ AtMostFivePerWindow(a)
        /\ ip_requests[a] # Absent =>
              Len(Pruned(ip_requests[a], clock)) >= RecentAdmitted(a, clock)
====
